---- MODULE Spec2Model ----
(***************************************************************************)
(* Model of the Discord delivery subsystem of rp-chat-logger: the chunker  *)
(* (extractChunk, splitMessage), the webhook sender                        *)
(* (sendToDiscordWithRetry, sendToDiscord), the delivery queue             *)
(* (DiscordQueue), the ingestion handler (createHandler) and the SSE       *)
(* logger and brokers the queue reports to.                                *)
(*                                                                         *)
(* Strings are sequences of one-character strings.  Time is counted in     *)
(* milliseconds.                                                           *)
(*                                                                         *)
(* Spec is the system of handlers, queue and background task, with brokers *)
(* that take every line at once; SpecBroker is one request with brokers    *)
(* that may be busy or stopped; SpecSend is the sender on its own.         *)
(***************************************************************************)
EXTENDS Integers, Sequences, FiniteSets, TLC

\* ------------------------------------------------------------------------
\* Bounds of the model
\* ------------------------------------------------------------------------

\* discordMessageLimit is 2000 in src/discord.go:16; the model scales the
\* platform limit down so that short texts split into several chunks.
discordMessageLimit == 14

\* Iterations of the split loop the model follows before it reports that the
\* loop has not ended.
MaxSplitIter == 8

\* ------------------------------------------------------------------------
\* Chunker (src/discord.go:228-275)
\* ------------------------------------------------------------------------

Dots == <<".", ".", ".">>
DotsSp == <<".", ".", ".", " ">>
SpDots == <<" ", ".", ".", ".">>

\* strings.HasPrefix
HasPrefix(s, p) == Len(s) >= Len(p) /\ SubSeq(s, 1, Len(p)) = p

\* The backward scan of extractChunk: "for end > 0 && msg[end] != ' '".
\* Go indexes from 0, so msg[end] is the model's msg[end + 1].
RECURSIVE lastSpace(_, _)
lastSpace(msg, end) ==
    IF end > 0 /\ msg[end + 1] # " " THEN lastSpace(msg, end - 1) ELSE end

\* extractChunk with a fault: a text that fits is given a trailing marker.
extractChunkMarksAll(msg, maxLength) ==
    IF Len(msg) < maxLength
    THEN [chunk |-> msg \o SpDots, remainder |-> <<>>, panic |-> FALSE]
    ELSE IF Len(msg) = maxLength
    THEN [chunk |-> Dots, remainder |-> DotsSp \o msg, panic |-> FALSE]
    ELSE LET end == lastSpace(msg, maxLength - 4) IN
         IF end = 0
         THEN [chunk |-> Dots, remainder |-> DotsSp \o msg, panic |-> FALSE]
         ELSE IF end < 0
         THEN [chunk |-> <<>>, remainder |-> <<>>, panic |-> TRUE]
         ELSE [chunk |-> SubSeq(msg, 1, end) \o SpDots,
               remainder |-> DotsSp \o SubSeq(msg, end + 2, Len(msg)),
               panic |-> FALSE]

\* extractChunk with a fault: the backward scan starts one place too far,
\* at maxLength - 3, leaving three places for the four of " ...".
extractChunkReservesThree(msg, maxLength) ==
    IF Len(msg) < maxLength
    THEN [chunk |-> msg, remainder |-> <<>>, panic |-> FALSE]
    ELSE IF Len(msg) = maxLength
    THEN [chunk |-> Dots, remainder |-> DotsSp \o msg, panic |-> FALSE]
    ELSE LET end == lastSpace(msg, maxLength - 3) IN
         IF end = 0
         THEN [chunk |-> Dots, remainder |-> DotsSp \o msg, panic |-> FALSE]
         ELSE IF end < 0
         THEN [chunk |-> <<>>, remainder |-> <<>>, panic |-> TRUE]
         ELSE [chunk |-> SubSeq(msg, 1, end) \o SpDots,
               remainder |-> DotsSp \o SubSeq(msg, end + 2, Len(msg)),
               panic |-> FALSE]

\* extractChunk with a fault: the remainder starts at the space the text was
\* cut at (msg[end:]) and not after it.
extractChunkKeepsSpace(msg, maxLength) ==
    IF Len(msg) < maxLength
    THEN [chunk |-> msg, remainder |-> <<>>, panic |-> FALSE]
    ELSE IF Len(msg) = maxLength
    THEN [chunk |-> Dots, remainder |-> DotsSp \o msg, panic |-> FALSE]
    ELSE LET end == lastSpace(msg, maxLength - 4) IN
         IF end = 0
         THEN [chunk |-> Dots, remainder |-> DotsSp \o msg, panic |-> FALSE]
         ELSE IF end < 0
         THEN [chunk |-> <<>>, remainder |-> <<>>, panic |-> TRUE]
         ELSE [chunk |-> SubSeq(msg, 1, end) \o SpDots,
               remainder |-> DotsSp \o SubSeq(msg, end + 1, Len(msg)),
               panic |-> FALSE]

\* extractChunk with a fault: the remainder of a split does not get its
\* leading "... ".
extractChunkBareRemainder(msg, maxLength) ==
    IF Len(msg) < maxLength
    THEN [chunk |-> msg, remainder |-> <<>>, panic |-> FALSE]
    ELSE IF Len(msg) = maxLength
    THEN [chunk |-> Dots, remainder |-> DotsSp \o msg, panic |-> FALSE]
    ELSE LET end == lastSpace(msg, maxLength - 4) IN
         IF end = 0
         THEN [chunk |-> Dots, remainder |-> DotsSp \o msg, panic |-> FALSE]
         ELSE IF end < 0
         THEN [chunk |-> <<>>, remainder |-> <<>>, panic |-> TRUE]
         ELSE [chunk |-> SubSeq(msg, 1, end) \o SpDots,
               remainder |-> SubSeq(msg, end + 2, Len(msg)),
               panic |-> FALSE]

\* extractChunk returns (chunk, remainder).  A negative end (maxLength < 4)
\* makes msg[:end] a slice with a negative bound, which panics at run time.
extractChunk(msg, maxLength) ==
    IF Len(msg) < maxLength
    THEN [chunk |-> msg, remainder |-> <<>>, panic |-> FALSE]
    ELSE IF Len(msg) = maxLength
    THEN [chunk |-> Dots, remainder |-> DotsSp \o msg, panic |-> FALSE]
    ELSE LET end == lastSpace(msg, maxLength - 4) IN
         IF end = 0
         THEN [chunk |-> Dots, remainder |-> DotsSp \o msg, panic |-> FALSE]
         ELSE IF end < 0
         THEN [chunk |-> <<>>, remainder |-> <<>>, panic |-> TRUE]
         ELSE [chunk |-> SubSeq(msg, 1, end) \o SpDots,
               remainder |-> DotsSp \o SubSeq(msg, end + 2, Len(msg)),
               panic |-> FALSE]

\* The loop of splitMessage, followed for at most `fuel` iterations.
\* status: "ok" the loop ended; "panic" extractChunk panicked; "forever" an
\* iteration left remainingMessage as it found it, so the loop never ends;
\* "running" the loop had not ended when the model stopped following it.
RECURSIVE splitLoop(_, _, _, _, _)
splitLoop(base, remainingMessage, messageSize, chunks, fuel) ==
    IF Len(remainingMessage) = 0
    THEN [chunks |-> chunks, status |-> "ok", remaining |-> remainingMessage]
    ELSE IF fuel = 0
    THEN [chunks |-> chunks, status |-> "running", remaining |-> remainingMessage]
    ELSE LET e == extractChunk(remainingMessage, messageSize)
             next == IF e.remainder # <<>> /\ ~HasPrefix(e.remainder, Dots)
                     THEN Dots \o e.remainder
                     ELSE e.remainder
         IN
         IF e.panic
         THEN [chunks |-> chunks, status |-> "panic", remaining |-> remainingMessage]
         ELSE IF next = remainingMessage
         THEN [chunks |-> Append(chunks, base \o e.chunk), status |-> "forever",
               remaining |-> remainingMessage]
         ELSE splitLoop(base, next, messageSize, Append(chunks, base \o e.chunk), fuel - 1)

\* splitMessage with a fault: the loop body runs once before its condition
\* is tested, so the empty message gives the chunk that is the header alone.
splitMessageLoopsOnce(base, msg, messageSize) ==
    IF Len(msg) = 0
    THEN [chunks |-> <<base>>, status |-> "ok", remaining |-> <<>>]
    ELSE splitLoop(base, msg, messageSize, <<>>, MaxSplitIter)

splitMessage(base, msg, messageSize) ==
    splitLoop(base, msg, messageSize, <<>>, MaxSplitIter)

\* ------------------------------------------------------------------------
\* Webhook sender (src/discord.go:157-226)
\* ------------------------------------------------------------------------

\* 5 * time.Second, the wait used when Retry-After is absent or unparseable.
defaultRetryAfter == 5000

StatusNoContent == 204
StatusTooManyRequests == 429

\* A Retry-After header: absent (Header.Get returns ""), text that
\* strconv.ParseFloat rejects, or a number of seconds, held here in
\* microseconds so that fractions of a millisecond exist.
HdrAbsent == [kind |-> "absent", micros |-> 0]
HdrBad == [kind |-> "bad", micros |-> 0]
HdrNum(us) == [kind |-> "num", micros |-> us]

\* time.Duration(x) of a float truncates toward zero.
TruncDiv(a, b) == IF a >= 0 THEN a \div b ELSE -((-a) \div b)

\* Lines 194-200: the wait, in milliseconds, read from a 429 response.
\* seconds*1000 is micros/1000; the conversion drops the fraction.
RetryAfterOf(h) ==
    IF h.kind = "num" THEN TruncDiv(h.micros, 1000) ELSE defaultRetryAfter

\* What one iteration of the chunk loop meets: a json.Marshal error, a
\* http.NewRequestWithContext error, an error of discordClient.Do (transport
\* failure, or the context's or the client's timeout), or a response.
RespMarshalErr == [kind |-> "marshal", status |-> 0, hdr |-> HdrAbsent]
RespNewReqErr == [kind |-> "newreq", status |-> 0, hdr |-> HdrAbsent]
RespTransportErr == [kind |-> "transport", status |-> 0, hdr |-> HdrAbsent]
RespTimeout == [kind |-> "timeout", status |-> 0, hdr |-> HdrAbsent]
RespHTTP(code, h) == [kind |-> "http", status |-> code, hdr |-> h]

\* chunkStep with a fault: every 2xx status counts as delivered.
chunkStepAccepts2xx(resp) ==
    IF resp.kind = "marshal"
    THEN [ret |-> TRUE, retryAfter |-> 0, err |-> "marshaling discord payload", posted |-> 0]
    ELSE IF resp.kind = "newreq"
    THEN [ret |-> TRUE, retryAfter |-> 0, err |-> "creating discord request", posted |-> 0]
    ELSE IF resp.kind \in {"transport", "timeout"}
    THEN [ret |-> TRUE, retryAfter |-> 0, err |-> "sending discord request", posted |-> 1]
    ELSE IF resp.status = StatusTooManyRequests
    THEN [ret |-> TRUE, retryAfter |-> RetryAfterOf(resp.hdr),
          err |-> "rate limited by Discord", posted |-> 1]
    ELSE IF resp.status \notin 200..299
    THEN [ret |-> TRUE, retryAfter |-> 0, err |-> "discord API returned status code", posted |-> 1]
    ELSE [ret |-> FALSE, retryAfter |-> 0, err |-> "nil", posted |-> 1]

\* chunkStep with a fault: a failure status other than 429 does not end the
\* loop, the next chunk is sent.
chunkStepKeepsGoing(resp) ==
    IF resp.kind = "marshal"
    THEN [ret |-> TRUE, retryAfter |-> 0, err |-> "marshaling discord payload", posted |-> 0]
    ELSE IF resp.kind = "newreq"
    THEN [ret |-> TRUE, retryAfter |-> 0, err |-> "creating discord request", posted |-> 0]
    ELSE IF resp.kind \in {"transport", "timeout"}
    THEN [ret |-> TRUE, retryAfter |-> 0, err |-> "sending discord request", posted |-> 1]
    ELSE IF resp.status = StatusTooManyRequests
    THEN [ret |-> TRUE, retryAfter |-> RetryAfterOf(resp.hdr),
          err |-> "rate limited by Discord", posted |-> 1]
    ELSE [ret |-> FALSE, retryAfter |-> 0, err |-> "nil", posted |-> 1]

\* chunkStep with a fault: a failure status other than 429 honours the
\* Retry-After header of its response.
chunkStepHonoursRetryAfter(resp) ==
    IF resp.kind = "marshal"
    THEN [ret |-> TRUE, retryAfter |-> 0, err |-> "marshaling discord payload", posted |-> 0]
    ELSE IF resp.kind = "newreq"
    THEN [ret |-> TRUE, retryAfter |-> 0, err |-> "creating discord request", posted |-> 0]
    ELSE IF resp.kind \in {"transport", "timeout"}
    THEN [ret |-> TRUE, retryAfter |-> 0, err |-> "sending discord request", posted |-> 1]
    ELSE IF resp.status = StatusTooManyRequests
    THEN [ret |-> TRUE, retryAfter |-> RetryAfterOf(resp.hdr),
          err |-> "rate limited by Discord", posted |-> 1]
    ELSE IF resp.status # StatusNoContent
    THEN [ret |-> TRUE,
          retryAfter |-> IF resp.hdr.kind = "num" THEN RetryAfterOf(resp.hdr) ELSE 0,
          err |-> "discord API returned status code", posted |-> 1]
    ELSE [ret |-> FALSE, retryAfter |-> 0, err |-> "nil", posted |-> 1]

\* One iteration of the loop at lines 166-207.  ret: the function returns in
\* this iteration; posted: the request reached discordClient.Do.
chunkStep(resp) ==
    IF resp.kind = "marshal"
    THEN [ret |-> TRUE, retryAfter |-> 0, err |-> "marshaling discord payload", posted |-> 0]
    ELSE IF resp.kind = "newreq"
    THEN [ret |-> TRUE, retryAfter |-> 0, err |-> "creating discord request", posted |-> 0]
    ELSE IF resp.kind \in {"transport", "timeout"}
    THEN [ret |-> TRUE, retryAfter |-> 0, err |-> "sending discord request", posted |-> 1]
    ELSE IF resp.status = StatusTooManyRequests
    THEN [ret |-> TRUE, retryAfter |-> RetryAfterOf(resp.hdr),
          err |-> "rate limited by Discord", posted |-> 1]
    ELSE IF resp.status # StatusNoContent
    THEN [ret |-> TRUE, retryAfter |-> 0, err |-> "discord API returned status code", posted |-> 1]
    ELSE [ret |-> FALSE, retryAfter |-> 0, err |-> "nil", posted |-> 1]

\* The header sendToDiscordWithRetry formats at line 161,
\* "**[HH:MM:SS] sender:** \n"; the model keeps the sender and one mark.
BaseOf(sender) == sender \o <<":">>

\* The chunks of one send operation (line 163).
chunksOf(sender, message) ==
    splitMessage(BaseOf(sender), message, discordMessageLimit - Len(BaseOf(sender)))

\* The loop over the chunks; resps[i] is what the i-th iteration meets.
\* posts counts the requests handed to discordClient.Do.
RECURSIVE sendLoop(_, _, _, _)
sendLoop(chunks, resps, i, posts) ==
    IF i > Len(chunks)
    THEN [state |-> "returned", retryAfter |-> 0, err |-> "nil", posts |-> posts]
    ELSE LET r == chunkStep(resps[i]) IN
         IF r.ret
         THEN [state |-> "returned", retryAfter |-> r.retryAfter, err |-> r.err,
               posts |-> posts + r.posted]
         ELSE sendLoop(chunks, resps, i + 1, posts + r.posted)

\* sendToDiscordWithRetry: (retryAfter, err).  state tells whether the call
\* returned at all: splitMessage may panic or never end.
sendToDiscordWithRetry(sender, message, resps) ==
    LET s == chunksOf(sender, message) IN
    IF s.status = "ok"
    THEN sendLoop(s.chunks, resps, 1, 0)
    ELSE [state |-> s.status, retryAfter |-> 0, err |-> "nil", posts |-> 0]

\* sendToDiscord: (rateLimited, retryAfter, err), lines 217-226.
classify(r) ==
    IF r.err # "nil"
    THEN IF r.retryAfter > 0
         THEN [rateLimited |-> TRUE, retryAfter |-> r.retryAfter, err |-> r.err]
         ELSE [rateLimited |-> FALSE, retryAfter |-> 0, err |-> r.err]
    ELSE [rateLimited |-> FALSE, retryAfter |-> 0, err |-> "nil"]

sendToDiscord(sender, message, resps) ==
    LET r == sendToDiscordWithRetry(sender, message, resps) IN
    [state |-> r.state, posts |-> r.posts] @@ classify(r)

\* ------------------------------------------------------------------------
\* Bounds and inputs of the state machine
\* ------------------------------------------------------------------------

\* Requests the game client makes; request h is served by handler goroutine h.
NumReqs == 2

\* The broadcast channel of an SSEBroker holds 256 lines (src/sse.go:28); the
\* model's channel holds BroadcastCap lines.
BroadcastCap == 1

maxRetries == 5
maxFailures == 100
StatusOK == 200

Reqs == 1..NumReqs
Loop == 0
Procs == {Loop} \cup Reqs
Brokers == {"log", "failure"}

TextLong == <<"a", "b", " ", "c", "d", " ", "e", "f", " ", "g", "h", " ", "i", "j">>
TextShort == <<"a", "b", " ", "c", "d">>
\* A message that is one run of characters without a space, longer than a
\* chunk may be.
TextToken == <<"a", "b", "c", "d", "e", "f", "g", "h", "i", "j", "k", "l", "m", "n">>
SenderH == <<"H">>
\* cfg.WebhookURL of the configuration the handlers snapshot.
WebhookURL == <<"w">>

\* A request to /message: the sender and message of its query, and the
\* configuration the handler snapshots (src/unnamed/part_002:98-100).
Request(sender, message, discord, localSave) ==
    [sender |-> sender, message |-> message, discord |-> discord, localSave |-> localSave]
NoReq == Request(<<>>, <<>>, FALSE, FALSE)

\* The requests handler goroutine h may be given.
RequestsOf(h) ==
    IF h = 1 THEN {Request(SenderH, TextLong, TRUE, FALSE)}
    ELSE IF h = 2
    THEN {Request(SenderH, TextShort, TRUE, TRUE), Request(SenderH, TextShort, FALSE, TRUE),
          Request(SenderH, <<>>, TRUE, TRUE), Request(<<>>, TextShort, TRUE, FALSE),
          Request(SenderH, TextToken, TRUE, TRUE)}
    ELSE {Request(SenderH, <<>>, TRUE, TRUE)}

\* parseMessage with a fault: only the message is required.
parseMessageIgnoresSender(q) ==
    IF q.message = <<>>
    THEN [sender |-> <<>>, message |-> <<>>]
    ELSE [sender |-> q.sender, message |-> q.message]

\* parseMessage (src/message.go:8-26) on a request to /message.
parseMessage(q) ==
    IF q.sender = <<>> \/ q.message = <<>>
    THEN [sender |-> <<>>, message |-> <<>>]
    ELSE [sender |-> q.sender, message |-> q.message]

\* What the webhook answers in the state machine: success, a 429 without
\* Retry-After (the wait is the default), and a server error, which stands
\* for the failures that are not a 429.
QResponses ==
    { RespHTTP(StatusNoContent, HdrAbsent),
      RespHTTP(StatusTooManyRequests, HdrAbsent),
      RespHTTP(500, HdrAbsent) }

\* The period of processLoop's ticker, 5 seconds (src/discord.go:85); the
\* clock advances by one period at a time.  The period is also the default
\* wait, so the clock can stand exactly at the retryAt of a message.
tickerPeriod == 5000

\* Instants are measured from the present: time.Now() is 0, an instant in the
\* past is negative, and the passing of time moves every instant the program
\* holds toward the past.  An instant a whole period or more in the past is
\* held as one period in the past: the program only asks whether an instant
\* is before the present.
now == 0
LongAgo == 0 - tickerPeriod

\* The zero time.Time, which RetryAt.IsZero() recognises.
ZeroTime == 0 - 1000000

\* ------------------------------------------------------------------------
\* State
\* ------------------------------------------------------------------------

VARIABLES
    messages,   \* DiscordQueue.messages
    notify,     \* DiscordQueue.notify: lines in the channel (capacity 1)
    done,       \* DiscordQueue.done is closed
    lpc,        \* where processLoop stands
    ready,      \* processMessages: the ready messages not yet sent
    cur,        \* processMessages: msg, the message being sent
    idx,        \* per goroutine: the chunk being POSTed (0: no send)
    req,        \* the request each handler serves
    hpc,        \* where each handler stands
    answered,   \* the status each handler answered (0: none yet)
    herr,       \* per handler: the errors its sinks returned
    todo,       \* per goroutine: the calls it still has to make
    tick,       \* ticks waiting in ticker.C (capacity 1)
    debugMode,  \* SSELogger.debugMode
    logged,     \* the lines SSELogger.Log stored in history (fewer than maxHistory)
    failures,   \* SSELogger.failures
    fill,       \* per broker: lines in its broadcast channel
    bstate,     \* per broker: where SSEBroker.run stands
    sends,      \* per request: send operations started for its message
    outcomes,   \* per request: how each finished send of its message ended
    sendIn,     \* sender on its own: the input
    sendOut,    \* sender on its own: the result
    splitIn,    \* chunker on its own: the arguments of splitMessage
    splitOut,   \* chunker on its own: what splitMessage did
    post,       \* chunk loop on its own: where sendToDiscordWithRetry stands
    mu,         \* DiscordQueue.mu: the goroutine that holds it (free: NoHolder)
    pending,    \* processMessages: the local slice pending
    taken,      \* per request: the drain passes that took its message as ready
    stopOut,    \* Stop on its own: the calls made and whether one panicked
    logOut      \* logger on its own: SSELogger.history and the count of lines published

vars == <<messages, notify, done, lpc, ready, cur, idx, req, hpc, answered, herr, todo,
          tick, debugMode, logged, failures, fill, bstate, sends, outcomes,
          sendIn, sendOut, splitIn, splitOut, post, mu, pending, taken,
          stopOut, logOut>>

\* The variables a goroutine's calls write.
callVars == <<notify, lpc, ready, cur, idx, hpc, answered, todo, logged, failures, fill,
              sends>>
senderVars == <<sendIn, sendOut, splitIn, splitOut, post, mu, pending, taken,
                stopOut, logOut>>

\* No message: the zero QueuedMessage.  id is the request a message came
\* from; the struct has no such field, the model keeps it to follow one
\* message through its retries.
NoMsg == [id |-> 0, webhookURL |-> <<>>, sender |-> <<>>, message |-> <<>>,
          retryAt |-> ZeroTime, attempts |-> 0]

\* ------------------------------------------------------------------------
\* SSE logger and brokers (src/sse.go)
\* ------------------------------------------------------------------------

\* The calls a goroutine still has to make, in program order.
LogCall(level, text, id) == [op |-> "log", a |-> level, b |-> text, id |-> id]
FailCall(sender, message, failureType, errMsg, id) ==
    [op |-> "fail", a |-> failureType, b |-> errMsg, id |-> id, sender |-> sender,
     message |-> message]
\* Add's non-blocking send on notify (src/discord.go:65-69)
NotifyCall == [op |-> "notify", a |-> "", b |-> "", id |-> 0]
\* SSEBroker.Publish: "b.broadcast <- msg" (src/sse.go:87)
PublishCall(broker) == [op |-> "pub", a |-> broker, b |-> "", id |-> 0]
\* The handler calls sendToDiscord (src/unnamed/part_002:120); status tells
\* whether splitMessage ends.
SendCall(status) == [op |-> "send", a |-> status, b |-> "", id |-> 0]
\* The handler writes its response (src/unnamed/part_002:167-173).
RespondCall(code) == [op |-> "respond", a |-> "", b |-> "", id |-> 0, code |-> code]
\* processMessages goes on to the next ready message (src/discord.go:122).
NextCall == [op |-> "next", a |-> "", b |-> "", id |-> 0]

\* SSELogger.Log up to its call of Publish (lines 132-160): a debug line is
\* dropped while debug mode is off, any other line is stored.
LogStores(level, dbg) == dbg \/ level # "debug"

\* SSELogger.LogFailure up to its call of Publish (lines 186-204).
storeFailure(fs, entry) ==
    (IF Len(fs) >= maxFailures THEN Tail(fs) ELSE fs) \o <<entry>>

\* processLoop reaches its select (src/discord.go:89): with no case that can
\* proceed the goroutine waits (parked), and the first of Stop, a send on
\* notify and a tick then wakes it with its own case; otherwise it takes any
\* one of the cases that can proceed.
Arrive(d, n, t) == IF ~d /\ n = 0 /\ t = 0 THEN "parked" ELSE "select"

\* run with a fault: the send of a message that was tried before goes on
\* from its second chunk.
RECURSIVE runResumes(_, _, _, _)
runResumes(p, calls, st, dbg) ==
    IF calls = <<>>
    THEN [st |-> st, todo |-> <<>>]
    ELSE LET c == Head(calls)
             rest == Tail(calls)
         IN
         IF c.op = "log"
         THEN IF LogStores(c.a, dbg)
              THEN runResumes(p, <<PublishCall("log")>> \o rest,
                              [st EXCEPT !.logged = @ \cup {[level |-> c.a, text |-> c.b,
                                                             id |-> c.id]}],
                              dbg)
              ELSE runResumes(p, rest, st, dbg)
         ELSE IF c.op = "fail"
         THEN runResumes(p, <<PublishCall("failure")>> \o rest,
                         [st EXCEPT !.failures =
                              storeFailure(@, [id |-> c.id, sender |-> c.sender,
                                               message |-> c.message,
                                               failureType |-> c.a, error |-> c.b])],
                         dbg)
         ELSE IF c.op = "pub"
         THEN IF bstate[c.a] = "waiting"
              THEN runResumes(p, rest, st, dbg)
              ELSE IF st.fill[c.a] < BroadcastCap
              THEN runResumes(p, rest, [st EXCEPT !.fill[c.a] = @ + 1], dbg)
              ELSE [st |-> st, todo |-> calls]
         ELSE IF c.op = "notify"
         THEN [st |-> st, todo |-> calls]
         ELSE IF c.op = "send"
         THEN [st |-> [st EXCEPT !.hpc[p] = IF c.a = "ok" THEN "send" ELSE "stuck",
                                 !.idx[p] = 1,
                                 !.sends[p] = @ + 1],
               todo |-> rest]
         ELSE IF c.op = "respond"
         THEN runResumes(p, rest, [st EXCEPT !.hpc[p] = "done", !.answered[p] = c.code], dbg)
         ELSE \* "next"
              IF st.ready = <<>>
              THEN runResumes(p, rest,
                              [st EXCEPT !.lpc = Arrive(done, st.notify, tick), !.cur = NoMsg],
                              dbg)
              ELSE LET m == Head(st.ready) IN
                   [st |-> [st EXCEPT !.cur = m,
                                      !.ready = Tail(st.ready),
                                      !.idx[p] = IF m.attempts >= 1 THEN 2 ELSE 1,
                                      !.sends[m.id] = @ + 1,
                                      !.lpc = IF chunksOf(m.sender, m.message).status = "ok"
                                              THEN "send" ELSE "stuck"],
                    todo |-> rest]

\* Goroutine p runs the calls of `calls` up to the next point where another
\* goroutine's step can matter: a Publish that has to wait, the send on
\* notify that follows Add's append, the request of a send, or the end.  A
\* line published to a broker that waits in its select goes straight to it,
\* and the broker hands it to its clients without waiting for them
\* (src/sse.go:51-65) and waits again.  st holds what the calls write.
RECURSIVE run(_, _, _, _)
run(p, calls, st, dbg) ==
    IF calls = <<>>
    THEN [st |-> st, todo |-> <<>>]
    ELSE LET c == Head(calls)
             rest == Tail(calls)
         IN
         IF c.op = "log"
         THEN IF LogStores(c.a, dbg)
              THEN run(p, <<PublishCall("log")>> \o rest,
                       [st EXCEPT !.logged = @ \cup {[level |-> c.a, text |-> c.b, id |-> c.id]}],
                       dbg)
              ELSE run(p, rest, st, dbg)
         ELSE IF c.op = "fail"
         THEN run(p, <<PublishCall("failure")>> \o rest,
                  [st EXCEPT !.failures =
                       storeFailure(@, [id |-> c.id, sender |-> c.sender,
                                        message |-> c.message,
                                        failureType |-> c.a, error |-> c.b])],
                  dbg)
         ELSE IF c.op = "pub"
         THEN IF bstate[c.a] = "waiting"
              THEN run(p, rest, st, dbg)
              ELSE IF st.fill[c.a] < BroadcastCap
              THEN run(p, rest, [st EXCEPT !.fill[c.a] = @ + 1], dbg)
              ELSE [st |-> st, todo |-> calls]
         ELSE IF c.op = "notify"
         THEN [st |-> st, todo |-> calls]
         ELSE IF c.op = "send"
         THEN [st |-> [st EXCEPT !.hpc[p] = IF c.a = "ok" THEN "send" ELSE "stuck",
                                 !.idx[p] = 1,
                                 !.sends[p] = @ + 1],
               todo |-> rest]
         ELSE IF c.op = "respond"
         THEN run(p, rest, [st EXCEPT !.hpc[p] = "done", !.answered[p] = c.code], dbg)
         ELSE \* "next"
              IF st.ready = <<>>
              THEN run(p, rest,
                       [st EXCEPT !.lpc = Arrive(done, st.notify, tick), !.cur = NoMsg],
                       dbg)
              ELSE LET m == Head(st.ready) IN
                   [st |-> [st EXCEPT !.cur = m,
                                      !.ready = Tail(st.ready),
                                      !.idx[p] = 1,
                                      !.sends[m.id] = @ + 1,
                                      !.lpc = IF chunksOf(m.sender, m.message).status = "ok"
                                              THEN "send" ELSE "stuck"],
                    todo |-> rest]

\* What the calls of a goroutine write, as it stands.
CallState ==
    [logged |-> logged, failures |-> failures, notify |-> notify, lpc |-> lpc,
     fill |-> fill, hpc |-> hpc, answered |-> answered, idx |-> idx, sends |-> sends,
     ready |-> ready, cur |-> cur]

\* Goroutine p makes `calls` from st.
Calls(p, calls, st) ==
    LET res == run(p, calls, st, debugMode) IN
    /\ logged' = res.st.logged
    /\ failures' = res.st.failures
    /\ notify' = res.st.notify
    /\ lpc' = res.st.lpc
    /\ fill' = res.st.fill
    /\ hpc' = res.st.hpc
    /\ answered' = res.st.answered
    /\ idx' = res.st.idx
    /\ sends' = res.st.sends
    /\ ready' = res.st.ready
    /\ cur' = res.st.cur
    /\ todo' = [todo EXCEPT ![p] = res.todo]

\* SSEBroker.Publish (lines 86-88) of a goroutine that had to wait: the send
\* on the broadcast channel goes through once the channel has room or the
\* broker waits for a line; the goroutine then runs on.
Publish(p) ==
    /\ todo[p] # <<>>
    /\ Head(todo[p]).op = "pub"
    /\ bstate[Head(todo[p]).a] = "waiting" \/ fill[Head(todo[p]).a] < BroadcastCap
    /\ Calls(p, todo[p], CallState)
    /\ UNCHANGED <<messages, done, req, herr, tick, debugMode, bstate, outcomes, senderVars>>

\* AddNotify with a fault: the send on notify also wakes a processLoop that
\* has returned.
AddNotifyWakesExited(p) ==
    /\ todo[p] # <<>>
    /\ Head(todo[p]).op = "notify"
    /\ Calls(p, Tail(todo[p]),
             IF lpc \in {"parked", "exited"}
             THEN [CallState EXCEPT !.lpc = "pm"]
             ELSE [CallState EXCEPT !.notify = 1])
    /\ UNCHANGED <<messages, done, req, herr, tick, debugMode, bstate, outcomes, senderVars>>

\* AddNotify with a fault: the channel takes every wake-up (the send is not
\* dropped when the slot is taken).
AddNotifyQueues(p) ==
    /\ todo[p] # <<>>
    /\ Head(todo[p]).op = "notify"
    /\ Calls(p, Tail(todo[p]),
             IF lpc = "parked"
             THEN [CallState EXCEPT !.lpc = "pm"]
             ELSE [CallState EXCEPT !.notify = @ + 1])
    /\ UNCHANGED <<messages, done, req, herr, tick, debugMode, bstate, outcomes, senderVars>>

\* The select that ends DiscordQueue.Add (src/discord.go:65-69): the send on
\* notify goes straight to a processLoop that waits in its select, into the
\* channel's one slot when that is free, and is dropped otherwise.
AddNotify(p) ==
    /\ todo[p] # <<>>
    /\ Head(todo[p]).op = "notify"
    /\ Calls(p, Tail(todo[p]),
             IF lpc = "parked"
             THEN [CallState EXCEPT !.lpc = "pm"]
             ELSE [CallState EXCEPT !.notify = 1])
    /\ UNCHANGED <<messages, done, req, herr, tick, debugMode, bstate, outcomes, senderVars>>

\* SSEBroker.run (lines 35-71).  A broker that does not wait in its select
\* is busy: it handles a client that registers or unregisters (lines 37-50),
\* or has been stopped and has not yet taken the done case.
BrokerBusy(b) ==
    /\ bstate[b] = "waiting"
    /\ bstate' = [bstate EXCEPT ![b] = "busy"]
    /\ UNCHANGED <<messages, notify, done, lpc, ready, cur, idx, req, hpc, answered, herr,
                   todo, tick, debugMode, logged, failures, fill, sends, outcomes, senderVars>>

\* One turn of the select of a busy broker: it takes a line from broadcast,
\* takes the done case, or finds no case that can proceed and waits.
BrokerRun(b) ==
    /\ \/ /\ bstate[b] \in {"busy", "stopping"}
          /\ fill[b] > 0
          /\ fill' = [fill EXCEPT ![b] = @ - 1]
          /\ UNCHANGED bstate
       \/ /\ bstate[b] = "stopping"
          /\ bstate' = [bstate EXCEPT ![b] = "exited"]
          /\ UNCHANGED fill
       \/ /\ bstate[b] = "busy"
          /\ fill[b] = 0
          /\ bstate' = [bstate EXCEPT ![b] = "waiting"]
          /\ UNCHANGED fill
    /\ UNCHANGED <<messages, notify, done, lpc, ready, cur, idx, req, hpc, answered, herr,
                   todo, tick, debugMode, logged, failures, sends, outcomes, senderVars>>

\* SSEBroker.Stop (lines 91-93): close(done) wakes a broker that waits.
BrokerStop(b) ==
    /\ bstate[b] \in {"waiting", "busy"}
    /\ bstate' = [bstate EXCEPT ![b] = IF bstate[b] = "waiting" THEN "exited" ELSE "stopping"]
    /\ UNCHANGED <<messages, notify, done, lpc, ready, cur, idx, req, hpc, answered, herr,
                   todo, tick, debugMode, logged, failures, fill, sends, outcomes, senderVars>>

\* ------------------------------------------------------------------------
\* Delivery queue (src/discord.go:31-155)
\* ------------------------------------------------------------------------

\* What a finished send returned: (retryAfter, err).
Returned(retryAfter, err) == [retryAfter |-> retryAfter, err |-> err]
Delivered == Returned(0, "nil")

\* How a send ended, for the record of outcomes: delivered, answered 429 with
\* a positive wait, answered 429 with a wait that is not positive, or failed
\* otherwise.
OutcomeOf(resp, r) ==
    IF r.err = "nil" THEN "ok"
    ELSE IF resp.kind = "http" /\ resp.status = StatusTooManyRequests
    THEN IF r.retryAfter > 0 THEN "rl" ELSE "rl0"
    ELSE "err"

\* DiscordQueue.Add (lines 55-70): the append under the lock, then the log
\* line and the non-blocking notify.
Add(msgs, msg) ==
    [messages |-> Append(msgs, msg),
     calls |-> <<LogCall("info", "Message queued for Discord retry", msg.id), NotifyCall>>]

\* isReady with a fault: a message is taken at its retryAt, not after it.
isReadyAtRetryAt(msg, t) == msg.retryAt <= t \/ msg.retryAt = ZeroTime

\* isReady with a fault: only a message without a retry time is ready.
isReadyOnlyUnset(msg, t) == msg.retryAt = ZeroTime

\* Line 112: msg.RetryAt.Before(now) || msg.RetryAt.IsZero()
isReady(msg, t) == msg.retryAt < t \/ msg.retryAt = ZeroTime

\* partition with a fault: the ready messages also stay in the queue.
partitionKeepsReady(msgs, t) ==
    [ready |-> SelectSeq(msgs, LAMBDA m : m.retryAt < t \/ m.retryAt = ZeroTime),
     pending |-> msgs]

\* partition with a fault: every ready message is taken twice.
partitionTakesTwice(msgs, t) ==
    [ready |-> SelectSeq(msgs, LAMBDA m : m.retryAt < t \/ m.retryAt = ZeroTime)
               \o SelectSeq(msgs, LAMBDA m : m.retryAt < t \/ m.retryAt = ZeroTime),
     pending |-> SelectSeq(msgs, LAMBDA m : ~(m.retryAt < t \/ m.retryAt = ZeroTime))]

\* Lines 107-119: the partition of q.messages at time t.
partition(msgs, t) ==
    [ready |-> SelectSeq(msgs, LAMBDA m : isReady(m, t)),
     pending |-> SelectSeq(msgs, LAMBDA m : ~isReady(m, t))]

\* drainOutcome with a fault: the attempt bound is off by one.
drainOutcomeOneMore(msg, r, t) ==
    IF r.err # "nil"
    THEN LET attempts == msg.attempts + 1 IN
         IF r.retryAfter > 0 /\ attempts <= maxRetries
         THEN [add |-> TRUE,
               msg |-> [msg EXCEPT !.attempts = attempts, !.retryAt = t + r.retryAfter],
               calls |-> <<LogCall("info", "Discord rate limited, will retry", msg.id)>>]
         ELSE IF attempts >= maxRetries
         THEN [add |-> FALSE,
               msg |-> [msg EXCEPT !.attempts = attempts],
               calls |-> <<LogCall("error", "Discord send failed after attempts", msg.id),
                           FailCall(msg.sender, msg.message, "discord",
                                    <<"max retries exceeded", r.err>>, msg.id)>>]
         ELSE [add |-> FALSE,
               msg |-> [msg EXCEPT !.attempts = attempts],
               calls |-> <<LogCall("error", "Discord send failed", msg.id),
                           FailCall(msg.sender, msg.message, "discord", <<r.err>>, msg.id)>>]
    ELSE [add |-> FALSE,
          msg |-> msg,
          calls |-> <<LogCall("info", "Queued message sent to Discord successfully", msg.id)>>]

\* drainOutcome with a fault: any failed send is retried while the budget
\* lasts, rate limited or not.
drainOutcomeRetriesAll(msg, r, t) ==
    IF r.err # "nil"
    THEN LET attempts == msg.attempts + 1 IN
         IF attempts < maxRetries
         THEN [add |-> TRUE,
               msg |-> [msg EXCEPT !.attempts = attempts, !.retryAt = t + r.retryAfter],
               calls |-> <<LogCall("info", "Discord rate limited, will retry", msg.id)>>]
         ELSE [add |-> FALSE,
               msg |-> [msg EXCEPT !.attempts = attempts],
               calls |-> <<LogCall("error", "Discord send failed after attempts", msg.id),
                           FailCall(msg.sender, msg.message, "discord",
                                    <<"max retries exceeded", r.err>>, msg.id)>>]
    ELSE [add |-> FALSE,
          msg |-> msg,
          calls |-> <<LogCall("info", "Queued message sent to Discord successfully", msg.id)>>]

\* drainOutcome with a fault: a send that fails without a rate limit is
\* logged but gets no failure record.
drainOutcomeNoRecord(msg, r, t) ==
    IF r.err # "nil"
    THEN LET attempts == msg.attempts + 1 IN
         IF r.retryAfter > 0 /\ attempts < maxRetries
         THEN [add |-> TRUE,
               msg |-> [msg EXCEPT !.attempts = attempts, !.retryAt = t + r.retryAfter],
               calls |-> <<LogCall("info", "Discord rate limited, will retry", msg.id)>>]
         ELSE IF attempts >= maxRetries
         THEN [add |-> FALSE,
               msg |-> [msg EXCEPT !.attempts = attempts],
               calls |-> <<LogCall("error", "Discord send failed after attempts", msg.id),
                           FailCall(msg.sender, msg.message, "discord",
                                    <<"max retries exceeded", r.err>>, msg.id)>>]
         ELSE [add |-> FALSE,
               msg |-> [msg EXCEPT !.attempts = attempts],
               calls |-> <<LogCall("error", "Discord send failed", msg.id)>>]
    ELSE [add |-> FALSE,
          msg |-> msg,
          calls |-> <<LogCall("info", "Queued message sent to Discord successfully", msg.id)>>]

\* drainOutcome with a fault: a failed send counts as two attempts.
drainOutcomeCountsTwice(msg, r, t) ==
    IF r.err # "nil"
    THEN LET attempts == msg.attempts + 2 IN
         IF r.retryAfter > 0 /\ attempts < maxRetries
         THEN [add |-> TRUE,
               msg |-> [msg EXCEPT !.attempts = attempts, !.retryAt = t + r.retryAfter],
               calls |-> <<LogCall("info", "Discord rate limited, will retry", msg.id)>>]
         ELSE IF attempts >= maxRetries
         THEN [add |-> FALSE,
               msg |-> [msg EXCEPT !.attempts = attempts],
               calls |-> <<LogCall("error", "Discord send failed after attempts", msg.id),
                           FailCall(msg.sender, msg.message, "discord",
                                    <<"max retries exceeded", r.err>>, msg.id)>>]
         ELSE [add |-> FALSE,
               msg |-> [msg EXCEPT !.attempts = attempts],
               calls |-> <<LogCall("error", "Discord send failed", msg.id),
                           FailCall(msg.sender, msg.message, "discord", <<r.err>>, msg.id)>>]
    ELSE [add |-> FALSE,
          msg |-> msg,
          calls |-> <<LogCall("info", "Queued message sent to Discord successfully", msg.id)>>]

\* drainOutcome with a fault: a message out of retries is recorded with the
\* bare error text.
drainOutcomeBareText(msg, r, t) ==
    IF r.err # "nil"
    THEN LET attempts == msg.attempts + 1 IN
         IF r.retryAfter > 0 /\ attempts < maxRetries
         THEN [add |-> TRUE,
               msg |-> [msg EXCEPT !.attempts = attempts, !.retryAt = t + r.retryAfter],
               calls |-> <<LogCall("info", "Discord rate limited, will retry", msg.id)>>]
         ELSE [add |-> FALSE,
               msg |-> [msg EXCEPT !.attempts = attempts],
               calls |-> <<LogCall("error", "Discord send failed", msg.id),
                           FailCall(msg.sender, msg.message, "discord", <<r.err>>, msg.id)>>]
    ELSE [add |-> FALSE,
          msg |-> msg,
          calls |-> <<LogCall("info", "Queued message sent to Discord successfully", msg.id)>>]

\* Lines 127-153: what processMessages does with msg once its send returned r
\* at time t.  add: the message goes back through Add.
drainOutcome(msg, r, t) ==
    IF r.err # "nil"
    THEN LET attempts == msg.attempts + 1 IN
         IF r.retryAfter > 0 /\ attempts < maxRetries
         THEN [add |-> TRUE,
               msg |-> [msg EXCEPT !.attempts = attempts, !.retryAt = t + r.retryAfter],
               calls |-> <<LogCall("info", "Discord rate limited, will retry", msg.id)>>]
         ELSE IF attempts >= maxRetries
         THEN [add |-> FALSE,
               msg |-> [msg EXCEPT !.attempts = attempts],
               calls |-> <<LogCall("error", "Discord send failed after attempts", msg.id),
                           FailCall(msg.sender, msg.message, "discord",
                                    <<"max retries exceeded", r.err>>, msg.id)>>]
         ELSE [add |-> FALSE,
               msg |-> [msg EXCEPT !.attempts = attempts],
               calls |-> <<LogCall("error", "Discord send failed", msg.id),
                           FailCall(msg.sender, msg.message, "discord", <<r.err>>, msg.id)>>]
    ELSE [add |-> FALSE,
          msg |-> msg,
          calls |-> <<LogCall("info", "Queued message sent to Discord successfully", msg.id)>>]

\* DiscordQueue.Stop (lines 80-82).  A second close of done panics.
Stop ==
    /\ ~done
    /\ done' = TRUE
    /\ lpc' = IF lpc = "parked" THEN "exited" ELSE lpc
    /\ UNCHANGED <<messages, notify, ready, cur, idx, req, hpc, answered, herr, todo, tick,
                   debugMode, logged, failures, fill, bstate, sends, outcomes, senderVars>>

\* processLoop (lines 84-98): the cases of the select.
LoopRecvDone ==
    /\ lpc = "select"
    /\ done
    /\ lpc' = "exited"
    /\ UNCHANGED <<messages, notify, done, ready, cur, idx, req, hpc, answered, herr, todo,
                   tick, debugMode, logged, failures, fill, bstate, sends, outcomes,
                   senderVars>>

LoopRecvNotify ==
    /\ lpc = "select"
    /\ notify = 1
    /\ notify' = 0
    /\ lpc' = "pm"
    /\ UNCHANGED <<messages, done, ready, cur, idx, req, hpc, answered, herr, todo,
                   tick, debugMode, logged, failures, fill, bstate, sends, outcomes,
                   senderVars>>

LoopRecvTick ==
    /\ lpc = "select"
    /\ tick = 1
    /\ tick' = 0
    /\ lpc' = "pm"
    /\ UNCHANGED <<messages, notify, done, ready, cur, idx, req, hpc, answered, herr, todo,
                   debugMode, logged, failures, fill, bstate, sends, outcomes, senderVars>>

\* processMessages, lines 101-122: the critical section, and on to the first
\* ready message; with no message in the queue the function returns.
ProcessMessagesBegin ==
    /\ lpc = "pm"
    /\ IF Len(messages) = 0
       THEN /\ lpc' = Arrive(done, notify, tick)
            /\ UNCHANGED <<messages, notify, ready, cur, idx, hpc, answered, todo, logged,
                           failures, fill, sends>>
       ELSE /\ messages' = partition(messages, now).pending
            /\ Calls(Loop, <<NextCall>>,
                     [CallState EXCEPT !.ready = partition(messages, now).ready,
                                       !.lpc = "run"])
    /\ UNCHANGED <<done, req, herr, tick, debugMode, bstate, outcomes, senderVars>>

\* The send of cur returned r (lines 125-153); processMessages then goes on
\* to the next ready message.
LoopSendReturns(resp, r) ==
    LET o == drainOutcome(cur, r, now)
        a == Add(messages, o.msg)
    IN
    /\ messages' = IF o.add THEN a.messages ELSE messages
    /\ Calls(Loop, (IF o.add THEN a.calls ELSE <<>>) \o o.calls \o <<NextCall>>,
             [CallState EXCEPT !.idx[Loop] = 0, !.lpc = "run"])
    /\ outcomes' = [outcomes EXCEPT ![cur.id] = Append(@, OutcomeOf(resp, r))]

\* One turn of the chunk loop of the send made by processMessages: the
\* request of chunk idx meets resp.
LoopPost(resp) ==
    /\ lpc = "send"
    /\ LET n == Len(chunksOf(cur.sender, cur.message).chunks)
           c == chunkStep(resp)
       IN
       IF n = 0
       THEN LoopSendReturns(resp, Delivered)
       ELSE IF c.ret
       THEN LoopSendReturns(resp, Returned(c.retryAfter, c.err))
       ELSE IF idx[Loop] < n
       THEN /\ idx' = [idx EXCEPT ![Loop] = @ + 1]
            /\ UNCHANGED <<messages, notify, lpc, ready, cur, hpc, answered, todo, logged,
                           failures, fill, sends, outcomes>>
       ELSE LoopSendReturns(resp, Delivered)
    /\ UNCHANGED <<done, req, herr, tick, debugMode, bstate, senderVars>>

\* ------------------------------------------------------------------------
\* Ingestion handler (createHandler, src/unnamed/part_002:85-175)
\* ------------------------------------------------------------------------

NoErr == [discord |-> FALSE, file |-> FALSE]

\* Lines 167-173: the handler sets no status and encodes {"status": "ok"},
\* so the response is 200 whatever errors e the sinks returned.
statusOf(e) == StatusOK

\* Lines 91-119: the log lines up to the Discord send of request h.
handlerPrelude(q, h) ==
    LET p == parseMessage(q) IN
    <<LogCall("debug", "HTTP request", h), LogCall("debug", "User-Agent", h),
      LogCall("debug", "Config", h), LogCall("debug", "Parsed", h)>>
    \o (IF p.message # <<>>
        THEN <<LogCall("info", "Message from", h)>>
             \o (IF q.discord
                 THEN <<LogCall("debug", "Sending to Discord webhook", h)>>
                 ELSE <<>>)
        ELSE <<LogCall("debug", "No message content, skipping processing", h)>>)

\* Lines 120-144: what the handler does once sendToDiscord returned c at
\* time t.  add: the message is handed to the queue.
handlerOutcome(q, h, c, t) ==
    LET p == parseMessage(q) IN
    IF c.err # "nil"
    THEN IF c.rateLimited
         THEN [add |-> TRUE,
               msg |-> [id |-> h, webhookURL |-> WebhookURL, sender |-> p.sender,
                        message |-> p.message, retryAt |-> t + c.retryAfter,
                        attempts |-> 1],
               calls |-> <<LogCall("info", "Discord rate limited, message queued for retry", h)>>]
         ELSE [add |-> FALSE, msg |-> NoMsg,
               calls |-> <<LogCall("error", "Discord send failed", h),
                           FailCall(p.sender, p.message, "discord", <<c.err>>, h)>>]
    ELSE [add |-> FALSE, msg |-> NoMsg,
          calls |-> <<LogCall("debug", "Discord webhook returned success", h)>>]

\* Lines 147-173: file logging, which ends ok or with an error, and the
\* response; e holds the errors of the sinks so far.
handlerTail(q, h, e, ok) ==
    LET p == parseMessage(q) IN
    IF q.localSave
    THEN <<LogCall("debug", "Writing to file", h)>>
         \o (IF ok
             THEN <<LogCall("debug", "Wrote to file successfully", h)>>
             ELSE <<LogCall("error", "File write failed", h),
                    FailCall(p.sender, p.message, "file", <<"file">>, h)>>)
         \o <<RespondCall(statusOf([e EXCEPT !.file = ~ok]))>>
    ELSE <<RespondCall(statusOf(e))>>

\* A request arrives (lines 88-120): without a message the handler answers;
\* with one it starts the Discord send, or goes on to file logging.
HandlerStart(h, q, ok) ==
    LET p == parseMessage(q) IN
    /\ hpc[h] = "idle"
    /\ req' = [req EXCEPT ![h] = q]
    /\ herr' = [herr EXCEPT ![h].file = p.message # <<>> /\ ~q.discord /\ q.localSave /\ ~ok]
    /\ Calls(h,
             handlerPrelude(q, h)
             \o (IF p.message = <<>>
                 THEN <<RespondCall(statusOf(NoErr))>>
                 ELSE IF q.discord
                 THEN <<SendCall(chunksOf(p.sender, p.message).status)>>
                 ELSE handlerTail(q, h, NoErr, ok)),
             [CallState EXCEPT !.hpc[h] = "run"])
    /\ UNCHANGED <<messages, done, tick, debugMode, bstate, outcomes, senderVars>>

\* sendToDiscord returned r to the handler of request h (lines 120-173).
HandlerSendReturns(h, resp, r, ok) ==
    LET o == handlerOutcome(req[h], h, classify(r), now)
        a == Add(messages, o.msg)
        e == [NoErr EXCEPT !.discord = (r.err # "nil")]
    IN
    /\ messages' = IF o.add THEN a.messages ELSE messages
    /\ herr' = [herr EXCEPT ![h] = [e EXCEPT !.file = req[h].localSave /\ ~ok]]
    /\ Calls(h, (IF o.add THEN a.calls ELSE <<>>) \o o.calls \o handlerTail(req[h], h, e, ok),
             [CallState EXCEPT !.idx[h] = 0, !.hpc[h] = "run"])
    /\ outcomes' = [outcomes EXCEPT ![h] = Append(@, OutcomeOf(resp, r))]

\* One turn of the chunk loop of the handler's send.
HandlerPost(h, resp, ok) ==
    /\ hpc[h] = "send"
    /\ LET p == parseMessage(req[h])
           n == Len(chunksOf(p.sender, p.message).chunks)
           c == chunkStep(resp)
       IN
       IF n = 0
       THEN HandlerSendReturns(h, resp, Delivered, ok)
       ELSE IF c.ret
       THEN HandlerSendReturns(h, resp, Returned(c.retryAfter, c.err), ok)
       ELSE IF idx[h] < n
       THEN /\ idx' = [idx EXCEPT ![h] = @ + 1]
            /\ UNCHANGED <<messages, notify, lpc, ready, cur, hpc, answered, herr, todo,
                           logged, failures, fill, sends, outcomes>>
       ELSE HandlerSendReturns(h, resp, Delivered, ok)
    /\ UNCHANGED <<done, req, tick, debugMode, bstate, senderVars>>

\* ------------------------------------------------------------------------
\* Environment
\* ------------------------------------------------------------------------

\* An instant, one ticker period later.
Later(t) ==
    IF t = ZeroTime THEN t
    ELSE IF t - tickerPeriod < LongAgo THEN LongAgo ELSE t - tickerPeriod

LaterMsg(m) == [m EXCEPT !.retryAt = Later(@)]

\* Five seconds pass, and the 5-second ticker of processLoop
\* (src/discord.go:85-86) delivers a tick: to a processLoop that waits in its
\* select, or into ticker.C, which holds one tick; a tick that finds ticker.C
\* full is dropped, and processLoop stops the ticker when it returns.
Tick ==
    /\ messages' = [i \in 1..Len(messages) |-> LaterMsg(messages[i])]
    /\ ready' = [i \in 1..Len(ready) |-> LaterMsg(ready[i])]
    /\ cur' = LaterMsg(cur)
    /\ IF lpc = "parked"
       THEN lpc' = "pm" /\ UNCHANGED tick
       ELSE /\ tick' = IF lpc = "exited" THEN tick ELSE 1
            /\ UNCHANGED lpc
    /\ UNCHANGED <<notify, done, idx, req, hpc, answered, herr, todo, debugMode, logged,
                   failures, fill, bstate, sends, outcomes, senderVars>>

\* ------------------------------------------------------------------------
\* The system: handlers, the queue and its background task, the brokers
\* ------------------------------------------------------------------------

\* No goroutine holds the mutex.
NoHolder == 0 - 1

\* Stop has not been called.
NoStop == [calls |-> 0, panicked |-> FALSE]

\* NewSSELogger (src/sse.go:119-128): no line stored and none published.
\* The lines and the failure entries are numbered as they are published.
NoLog == [history |-> <<>>, published |-> 0, failurePublished |-> 0]

\* The entries of the slice s that are the message of request h.
CountIn(s, h) == Cardinality({ j \in 1..Len(s) : s[j].id = h })

\* NewSSEBroker, NewSSELogger, NewDiscordQueue: the brokers and processLoop
\* wait in their selects and no request has arrived.
InitSystem ==
    /\ messages = <<>>
    /\ notify = 0
    /\ done = FALSE
    /\ lpc = "parked"
    /\ ready = <<>>
    /\ cur = NoMsg
    /\ idx = [p \in Procs |-> 0]
    /\ req = [h \in Reqs |-> NoReq]
    /\ hpc = [h \in Reqs |-> "idle"]
    /\ answered = [h \in Reqs |-> 0]
    /\ herr = [h \in Reqs |-> NoErr]
    /\ todo = [p \in Procs |-> <<>>]
    /\ tick = 0
    /\ debugMode = FALSE
    /\ logged = {}
    /\ failures = <<>>
    /\ fill = [b \in Brokers |-> 0]
    /\ bstate = [b \in Brokers |-> "waiting"]
    /\ sends = [h \in Reqs |-> 0]
    /\ outcomes = [h \in Reqs |-> <<>>]
    /\ mu = NoHolder
    /\ pending = <<>>
    /\ taken = [h \in Reqs |-> 0]
    /\ stopOut = NoStop
    /\ logOut = NoLog

NoSend == [sender |-> <<>>, message |-> <<>>, resps |-> <<>>]
NoResult == [state |-> "none", posts |-> 0, rateLimited |-> FALSE, retryAfter |-> 0,
             err |-> "nil", inner |-> 0]

NoSplit == [base |-> <<>>, msg |-> <<>>, messageSize |-> 0]
NoSplitResult == [state |-> "none", chunks |-> <<>>, status |-> "ok", remaining |-> <<>>]
NoPost == [state |-> "none", chunks |-> <<>>, i |-> 0, posted |-> <<>>, retryAfter |-> 0,
           err |-> "nil"]

\* The chunker and the chunk loop on their own have not been called.
InitPure ==
    /\ splitIn = NoSplit
    /\ splitOut = NoSplitResult
    /\ post = NoPost

Init ==
    /\ InitSystem
    /\ sendIn = NoSend
    /\ sendOut = NoResult
    /\ InitPure

\* The handlers of the requests in R, the queue and its background task, and
\* the passing of time.
System(R) ==
    \/ \E h \in R, ok \in BOOLEAN : \E q \in RequestsOf(h) : HandlerStart(h, q, ok)
    \/ \E h \in R, ok \in BOOLEAN, r \in QResponses : HandlerPost(h, r, ok)
    \/ \E p \in Procs : AddNotify(p)
    \/ LoopRecvDone
    \/ LoopRecvNotify
    \/ LoopRecvTick
    \/ ProcessMessagesBegin
    \/ \E r \in QResponses : LoopPost(r)
    \/ Stop
    \/ Tick

\* The system with brokers that wait for every line.
Next == System(Reqs)

Spec == Init /\ [][Next]_vars

\* One request, with brokers that may be busy or stopped.
NextBroker ==
    \/ System({1})
    \/ \E p \in Procs : Publish(p)
    \/ \E b \in Brokers : BrokerBusy(b)
    \/ \E b \in Brokers : BrokerRun(b)
    \/ \E b \in Brokers : BrokerStop(b)

SpecBroker == Init /\ [][NextBroker]_vars

\* ------------------------------------------------------------------------
\* The sender on its own
\* ------------------------------------------------------------------------

\* What a request of the sender may meet.
SResponses ==
    { RespHTTP(StatusNoContent, HdrAbsent),
      RespHTTP(StatusTooManyRequests, HdrAbsent),
      RespHTTP(StatusTooManyRequests, HdrBad),
      RespHTTP(StatusTooManyRequests, HdrNum(2500000)),
      RespHTTP(StatusTooManyRequests, HdrNum(1000000)),
      RespHTTP(StatusTooManyRequests, HdrNum(500)),
      RespHTTP(StatusTooManyRequests, HdrNum(0)),
      RespHTTP(StatusTooManyRequests, HdrNum(0 - 1000000)),
      RespHTTP(200, HdrAbsent),
      RespHTTP(500, HdrNum(2500000)),
      RespMarshalErr, RespNewReqErr, RespTransportErr, RespTimeout }

\* The sends: a message of one chunk or of two, and what each request meets.
SendInputs ==
    { [sender |-> SenderH, message |-> m, resps |-> <<r1, r2>>] :
        m \in {TextShort, TextLong}, r1 \in SResponses, r2 \in SResponses }

InitSend ==
    /\ InitSystem
    /\ sendIn \in SendInputs
    /\ sendOut = NoResult
    /\ InitPure

\* sendToDiscord is called on sendIn and returns; inner is what
\* sendToDiscordWithRetry returned to it.
Send ==
    /\ sendOut.state = "none"
    /\ sendOut' = sendToDiscord(sendIn.sender, sendIn.message, sendIn.resps)
                  @@ [inner |-> sendToDiscordWithRetry(sendIn.sender, sendIn.message,
                                                       sendIn.resps).retryAfter]
    /\ UNCHANGED <<messages, notify, done, lpc, ready, cur, idx, req, hpc, answered, herr,
                   todo, tick, debugMode, logged, failures, fill, bstate, sends, outcomes,
                   sendIn, splitIn, splitOut, post, mu, pending, taken,
                   stopOut, logOut>>

SpecSend == InitSend /\ [][Send]_vars

\* ------------------------------------------------------------------------
\* One request whose first send meets any of the sender's responses
\* ------------------------------------------------------------------------

\* The handler of request 1, whose send may be answered as in SResponses,
\* and the queue and its background task, whose sends are answered as in
\* QResponses.
NextHandler ==
    \/ \E ok \in BOOLEAN : \E q \in RequestsOf(1) : HandlerStart(1, q, ok)
    \/ \E ok \in BOOLEAN, r \in SResponses : HandlerPost(1, r, ok)
    \/ \E p \in Procs : AddNotify(p)
    \/ LoopRecvDone
    \/ LoopRecvNotify
    \/ LoopRecvTick
    \/ ProcessMessagesBegin
    \/ \E r \in QResponses : LoopPost(r)
    \/ Stop
    \/ Tick

SpecHandler == Init /\ [][NextHandler]_vars

\* ------------------------------------------------------------------------
\* The handlers and the queue between two ticks
\* ------------------------------------------------------------------------

\* No tick arrives, so processLoop is woken by Add and by Stop only; no
\* queued message falls due, since each waits for a time yet to come.
NextWake ==
    \/ \E h \in Reqs, ok \in BOOLEAN : \E q \in RequestsOf(h) : HandlerStart(h, q, ok)
    \/ \E h \in Reqs, ok \in BOOLEAN, r \in QResponses : HandlerPost(h, r, ok)
    \/ \E p \in Procs : AddNotify(p)
    \/ LoopRecvDone
    \/ LoopRecvNotify
    \/ ProcessMessagesBegin
    \/ Stop

SpecWake == Init /\ [][NextWake]_vars

\* ------------------------------------------------------------------------
\* One message whose first chunk the webhook always accepts
\* ------------------------------------------------------------------------

\* What the request of chunk i meets: the first chunk is accepted, a later
\* one may be accepted, rate limited or refused.
ResponsesAt(i) == IF i = 1 THEN {RespHTTP(StatusNoContent, HdrAbsent)} ELSE QResponses

NextRetry ==
    \/ \E ok \in BOOLEAN : \E q \in RequestsOf(1) : HandlerStart(1, q, ok)
    \/ \E ok \in BOOLEAN : \E r \in ResponsesAt(idx[1]) : HandlerPost(1, r, ok)
    \/ \E p \in Procs : AddNotify(p)
    \/ LoopRecvDone
    \/ LoopRecvNotify
    \/ LoopRecvTick
    \/ ProcessMessagesBegin
    \/ \E r \in ResponsesAt(idx[Loop]) : LoopPost(r)
    \/ Stop
    \/ Tick

SpecRetry == Init /\ [][NextRetry]_vars

\* ------------------------------------------------------------------------
\* The queue that is never stopped, under fair scheduling
\* ------------------------------------------------------------------------

\* One request and the queue; Stop is not called.
NextLive ==
    \/ \E ok \in BOOLEAN : \E q \in RequestsOf(1) : HandlerStart(1, q, ok)
    \/ \E ok \in BOOLEAN, r \in QResponses : HandlerPost(1, r, ok)
    \/ \E p \in Procs : AddNotify(p)
    \/ LoopRecvNotify
    \/ LoopRecvTick
    \/ ProcessMessagesBegin
    \/ \E r \in QResponses : LoopPost(r)
    \/ Tick

\* The ticker keeps ticking as time passes, processLoop runs when it can
\* (its select takes a case that is ready, processMessages goes on, the
\* send on notify of its own Add is made), and each request of a send made
\* by processMessages is answered.
FairLive ==
    /\ WF_vars(Tick)
    /\ WF_vars(LoopRecvNotify \/ LoopRecvTick)
    /\ WF_vars(ProcessMessagesBegin)
    /\ WF_vars(AddNotify(Loop))
    /\ WF_vars(\E r \in QResponses : LoopPost(r))

SpecLive == Init /\ [][NextLive]_vars /\ FairLive

\* ------------------------------------------------------------------------
\* A request that arrives after Stop
\* ------------------------------------------------------------------------

\* The request arrives once Stop has been called, so its message is added
\* to the queue after Stop.
NextStopped ==
    \/ \E ok \in BOOLEAN : \E q \in RequestsOf(1) : done /\ HandlerStart(1, q, ok)
    \/ \E ok \in BOOLEAN, r \in QResponses : HandlerPost(1, r, ok)
    \/ \E p \in Procs : AddNotify(p)
    \/ LoopRecvDone
    \/ LoopRecvNotify
    \/ LoopRecvTick
    \/ ProcessMessagesBegin
    \/ \E r \in QResponses : LoopPost(r)
    \/ Stop
    \/ Tick

SpecStopped == Init /\ [][NextStopped]_vars

\* ------------------------------------------------------------------------
\* Stop called more than once
\* ------------------------------------------------------------------------

\* The calls of Stop the model follows.
MaxStopCalls == 3

\* StopCall with a fault: closing the closed channel does nothing.
StopCallIdempotent ==
    /\ ~stopOut.panicked
    /\ stopOut.calls < MaxStopCalls
    /\ stopOut' = [stopOut EXCEPT !.calls = @ + 1]
    /\ done' = TRUE
    /\ lpc' = IF ~done /\ lpc = "parked" THEN "exited" ELSE lpc
    /\ UNCHANGED <<messages, notify, ready, cur, idx, req, hpc, answered, herr, todo, tick,
                   debugMode, logged, failures, fill, bstate, sends, outcomes,
                   sendIn, sendOut, splitIn, splitOut, post, mu, pending, taken, logOut>>

\* DiscordQueue.Stop (lines 80-82), called whatever came before: close(q.done)
\* closes the open channel, which wakes a processLoop that waits in its
\* select, and panics on the closed channel ("close of closed channel"),
\* which ends the process.
StopCall ==
    /\ ~stopOut.panicked
    /\ stopOut.calls < MaxStopCalls
    /\ IF done
       THEN /\ stopOut' = [calls |-> stopOut.calls + 1, panicked |-> TRUE]
            /\ UNCHANGED <<done, lpc>>
       ELSE /\ stopOut' = [stopOut EXCEPT !.calls = @ + 1]
            /\ done' = TRUE
            /\ lpc' = IF lpc = "parked" THEN "exited" ELSE lpc
    /\ UNCHANGED <<messages, notify, ready, cur, idx, req, hpc, answered, herr, todo, tick,
                   debugMode, logged, failures, fill, bstate, sends, outcomes,
                   sendIn, sendOut, splitIn, splitOut, post, mu, pending, taken, logOut>>

\* One request, the queue and the callers of Stop; after a panic nothing
\* runs.
NextStop ==
    \/ StopCall
    \/ /\ ~stopOut.panicked
       /\ \/ \E ok \in BOOLEAN : \E q \in RequestsOf(1) : HandlerStart(1, q, ok)
          \/ \E ok \in BOOLEAN, r \in QResponses : HandlerPost(1, r, ok)
          \/ \E p \in Procs : AddNotify(p)
          \/ LoopRecvDone
          \/ LoopRecvNotify
          \/ LoopRecvTick
          \/ ProcessMessagesBegin
          \/ \E r \in QResponses : LoopPost(r)
          \/ Tick

SpecStop == Init /\ [][NextStop]_vars

\* ------------------------------------------------------------------------
\* The logger on its own (src/sse.go:104-210)
\* ------------------------------------------------------------------------

\* maxHistory of NewSSELogger (src/sse.go:123).
maxHistory == 500

\* The lines and the failure entries the model follows.
MaxStored == 502
MaxFailed == 102

\* storeLine with a fault: the oldest line is not dropped.
storeLineKeepsAll(history, logLine) == Append(history, logLine)

\* SSELogger.Log, lines 154-158: the history ring.
storeLine(history, logLine) ==
    (IF Len(history) >= maxHistory THEN Tail(history) ELSE history) \o <<logLine>>

\* SSELogger.Log (lines 132-163) on the logger l with debug mode dbg: a debug
\* line is dropped when debug mode is off; any other line is stored and
\* published.
logLine(l, level, dbg) ==
    IF ~LogStores(level, dbg)
    THEN l
    ELSE [l EXCEPT !.history = storeLine(@, l.published + 1),
                   !.published = @ + 1]

\* The entry of the k-th call of LogFailure.
FailureEntry(k) ==
    [id |-> k, sender |-> SenderH, message |-> TextShort, failureType |-> "discord",
     error |-> <<"rate limited by Discord">>]

Log(level) ==
    /\ logOut.published < MaxStored
    /\ logOut' = logLine(logOut, level, debugMode)
    /\ UNCHANGED <<messages, notify, done, lpc, ready, cur, idx, req, hpc, answered, herr,
                   todo, tick, debugMode, logged, failures, fill, bstate, sends, outcomes,
                   sendIn, sendOut, splitIn, splitOut, post, mu, pending, taken, stopOut>>

\* SSELogger.LogFailure (lines 186-210).
LogFailure ==
    /\ logOut.failurePublished < MaxFailed
    /\ failures' = storeFailure(failures, FailureEntry(logOut.failurePublished + 1))
    /\ logOut' = [logOut EXCEPT !.failurePublished = @ + 1]
    /\ UNCHANGED <<messages, notify, done, lpc, ready, cur, idx, req, hpc, answered, herr,
                   todo, tick, debugMode, logged, fill, bstate, sends, outcomes,
                   sendIn, sendOut, splitIn, splitOut, post, mu, pending, taken, stopOut>>

\* SSELogger.SetDebugMode (lines 166-168).
SetDebugMode(enabled) ==
    /\ debugMode' = enabled
    /\ UNCHANGED <<messages, notify, done, lpc, ready, cur, idx, req, hpc, answered, herr,
                   todo, tick, logged, failures, fill, bstate, sends, outcomes,
                   sendIn, sendOut, splitIn, splitOut, post, mu, pending, taken, stopOut,
                   logOut>>

NextLog ==
    \/ \E level \in {"debug", "info", "warning", "error"} : Log(level)
    \/ LogFailure
    \/ \E enabled \in BOOLEAN : SetDebugMode(enabled)

SpecLog == Init /\ [][NextLog]_vars

\* ------------------------------------------------------------------------
\* The critical sections of the queue, one statement at a time
\* ------------------------------------------------------------------------

\* What the critical sections leave alone.
lockFrame == <<notify, done, cur, idx, req, answered, herr, todo, tick, debugMode, logged,
               failures, fill, bstate, sends, outcomes, sendIn, sendOut, splitIn, splitOut,
               post, stopOut, logOut>>

\* sync.Mutex.Lock with a fault: it does not wait for the mutex.
LockNoWait(holder) == TRUE

\* sync.Mutex.Lock returns once the mutex is free.
Lock(holder) == holder = NoHolder

\* The message goroutine a passes to Add: one that is ready at once, or one
\* to retry after the default wait.
AddedMsg(a, due) ==
    [id |-> a, webhookURL |-> WebhookURL, sender |-> SenderH, message |-> TextShort,
     retryAt |-> IF due THEN LongAgo ELSE now + defaultRetryAfter, attempts |-> 1]

\* Add, line 56: q.mu.Lock().
AddLock(a) ==
    /\ hpc[a] = "idle"
    /\ Lock(mu)
    /\ mu' = a
    /\ hpc' = [hpc EXCEPT ![a] = "locked"]
    /\ UNCHANGED <<messages, lpc, ready, pending, taken, lockFrame>>

\* Add, lines 57-58: the append, and the length read for the log line.
AddAppend(a, due) ==
    /\ hpc[a] = "locked"
    /\ messages' = Add(messages, AddedMsg(a, due)).messages
    /\ hpc' = [hpc EXCEPT ![a] = "appended"]
    /\ UNCHANGED <<mu, lpc, ready, pending, taken, lockFrame>>

\* Add, line 59: q.mu.Unlock(); the log line and the notify follow, and Add
\* returns.
AddUnlock(a) ==
    /\ hpc[a] = "appended"
    /\ mu' = NoHolder
    /\ hpc' = [hpc EXCEPT ![a] = "added"]
    /\ UNCHANGED <<messages, lpc, ready, pending, taken, lockFrame>>

\* processLoop takes its notify or ticker case (lines 92-95) and calls
\* processMessages.
PmCall ==
    /\ lpc = "parked"
    /\ lpc' = "pm"
    /\ UNCHANGED <<messages, hpc, mu, ready, pending, taken, lockFrame>>

\* processMessages, line 101: q.mu.Lock().
PmLock ==
    /\ lpc = "pm"
    /\ Lock(mu)
    /\ mu' = Loop
    /\ lpc' = "locked"
    /\ UNCHANGED <<messages, hpc, ready, pending, taken, lockFrame>>

\* Lines 102-105: nothing is queued; unlock and return.
PmEmpty ==
    /\ lpc = "locked"
    /\ Len(messages) = 0
    /\ mu' = NoHolder
    /\ lpc' = "parked"
    /\ UNCHANGED <<messages, hpc, ready, pending, taken, lockFrame>>

\* Lines 107-117: the loop over q.messages that fills ready and pending.
PmScan ==
    /\ lpc = "locked"
    /\ Len(messages) # 0
    /\ ready' = partition(messages, now).ready
    /\ pending' = partition(messages, now).pending
    /\ lpc' = "scanned"
    /\ UNCHANGED <<messages, hpc, mu, taken, lockFrame>>

\* Line 119: q.messages = pending.
PmReplace ==
    /\ lpc = "scanned"
    /\ messages' = pending
    /\ lpc' = "replaced"
    /\ UNCHANGED <<hpc, mu, ready, pending, taken, lockFrame>>

\* Line 120: q.mu.Unlock(); the pass goes on to send its ready messages
\* (taken counts them) and returns.
PmUnlock ==
    /\ lpc = "replaced"
    /\ mu' = NoHolder
    /\ taken' = [h \in Reqs |-> taken[h] + CountIn(ready, h)]
    /\ ready' = <<>>
    /\ pending' = <<>>
    /\ lpc' = "parked"
    /\ UNCHANGED <<messages, hpc, lockFrame>>

NextLock ==
    \/ \E a \in Reqs : AddLock(a)
    \/ \E a \in Reqs, due \in BOOLEAN : AddAppend(a, due)
    \/ \E a \in Reqs : AddUnlock(a)
    \/ PmCall
    \/ PmLock
    \/ PmEmpty
    \/ PmScan
    \/ PmReplace
    \/ PmUnlock

SpecLock == Init /\ [][NextLock]_vars

\* ------------------------------------------------------------------------
\* The chunk loop of sendToDiscordWithRetry, one iteration at a time
\* ------------------------------------------------------------------------

InitPost ==
    /\ InitSystem
    /\ sendIn \in SendInputs
    /\ sendOut = NoResult
    /\ splitIn = NoSplit
    /\ splitOut = NoSplitResult
    /\ post = NoPost

\* Lines 160-163: the header is formatted and the message split.  If
\* splitMessage does not return, neither does the call.
PostBegin ==
    /\ post.state = "none"
    /\ LET s == chunksOf(sendIn.sender, sendIn.message) IN
       post' = [post EXCEPT !.state = IF s.status = "ok" THEN "loop" ELSE s.status,
                            !.chunks = s.chunks,
                            !.i = 1]
    /\ UNCHANGED <<messages, notify, done, lpc, ready, cur, idx, req, hpc, answered, herr,
                   todo, tick, debugMode, logged, failures, fill, bstate, sends, outcomes,
                   sendIn, sendOut, splitIn, splitOut, mu, pending, taken,
                   stopOut, logOut>>

\* One iteration of "for i, chunk := range chunks" (lines 166-207): the
\* chunk is marshalled, the request built and handed to discordClient.Do,
\* which returns when the response has come; posted keeps the chunks that
\* reached Do, in the order they did.
PostChunk ==
    /\ post.state = "loop"
    /\ post.i <= Len(post.chunks)
    /\ LET r == chunkStep(sendIn.resps[post.i])
           sent == IF r.posted = 1 THEN Append(post.posted, post.chunks[post.i])
                   ELSE post.posted
       IN
       post' = IF r.ret
               THEN [post EXCEPT !.state = "returned", !.posted = sent,
                                 !.retryAfter = r.retryAfter, !.err = r.err]
               ELSE [post EXCEPT !.posted = sent, !.i = @ + 1]
    /\ UNCHANGED <<messages, notify, done, lpc, ready, cur, idx, req, hpc, answered, herr,
                   todo, tick, debugMode, logged, failures, fill, bstate, sends, outcomes,
                   sendIn, sendOut, splitIn, splitOut, mu, pending, taken,
                   stopOut, logOut>>

\* Lines 209-210: the range is exhausted, the call returns (0, nil).
PostReturn ==
    /\ post.state = "loop"
    /\ post.i > Len(post.chunks)
    /\ post' = [post EXCEPT !.state = "returned", !.retryAfter = 0, !.err = "nil"]
    /\ UNCHANGED <<messages, notify, done, lpc, ready, cur, idx, req, hpc, answered, herr,
                   todo, tick, debugMode, logged, failures, fill, bstate, sends, outcomes,
                   sendIn, sendOut, splitIn, splitOut, mu, pending, taken,
                   stopOut, logOut>>

NextPost == PostBegin \/ PostChunk \/ PostReturn

SpecPost == InitPost /\ [][NextPost]_vars

\* ------------------------------------------------------------------------
\* The chunker on its own
\* ------------------------------------------------------------------------

\* Longest message and largest body limit the chunker is called with.
MaxMsgLen == 11
MaxSize == 10

\* Texts of words and spaces: every sequence of "a" and " " up to MaxMsgLen.
SplitTexts == UNION { [1..n -> {"a", " "}] : n \in 0..MaxMsgLen }

\* The iterations of the loop of splitMessage (lines 264-273), at most fuel
\* of them: the text extractChunk was given, the remainder it returned, and
\* whether line 269 put "..." before the remainder.  A panic of extractChunk
\* ends the sequence.
RECURSIVE splitTrace(_, _, _)
splitTrace(remainingMessage, messageSize, fuel) ==
    IF Len(remainingMessage) = 0 \/ fuel = 0
    THEN <<>>
    ELSE LET e == extractChunk(remainingMessage, messageSize)
             prepend == e.remainder # <<>> /\ ~HasPrefix(e.remainder, Dots)
             next == IF prepend THEN Dots \o e.remainder ELSE e.remainder
         IN
         IF e.panic
         THEN <<>>
         ELSE <<[text |-> remainingMessage, remainder |-> e.remainder,
                 prepended |-> prepend]>>
              \o splitTrace(next, messageSize, fuel - 1)

\* The calls of splitMessage: a header, a text, and a body limit, which is
\* discordMessageLimit - len(base) at line 163 and so may be zero or
\* negative when the sender's name is long.
SplitInputs ==
    { [base |-> b, msg |-> m, messageSize |-> n] :
        b \in {<<>>, <<"H", ":">>}, m \in SplitTexts, n \in (0 - 1)..MaxSize }

InitSplit ==
    /\ InitSystem
    /\ sendIn = NoSend
    /\ sendOut = NoResult
    /\ splitIn \in SplitInputs
    /\ splitOut = NoSplitResult
    /\ post = NoPost

\* splitMessage is called on splitIn.
Split ==
    /\ splitOut.state = "none"
    /\ splitOut' = [state |-> "called"]
                   @@ splitMessage(splitIn.base, splitIn.msg, splitIn.messageSize)
    /\ UNCHANGED <<messages, notify, done, lpc, ready, cur, idx, req, hpc, answered, herr,
                   todo, tick, debugMode, logged, failures, fill, bstate, sends, outcomes,
                   sendIn, sendOut, splitIn, post, mu, pending, taken,
                   stopOut, logOut>>

SpecSplit == InitSplit /\ [][Split]_vars

\* ------------------------------------------------------------------------
\* Properties
\* ------------------------------------------------------------------------

\* Where the message of request h is.
InQueue(h) == \E i \in 1..Len(messages) : messages[i].id = h
InReady(h) == \E i \in 1..Len(ready) : ready[i].id = h
InPass(h) == cur.id = h
\* The handler of request h handed its message to the queue.
Handed(h) == Len(outcomes[h]) >= 1 /\ outcomes[h][1] = "rl"
AllRateLimited(h) == \A i \in 1..Len(outcomes[h]) : outcomes[h][i] = "rl"
DiscordFailureRecorded(h) ==
    \E i \in 1..Len(failures) : failures[i].id = h /\ failures[i].failureType = "discord"
MaxRetriesRecorded(h) ==
    \E i \in 1..Len(failures) :
        /\ failures[i].id = h
        /\ failures[i].failureType = "discord"
        /\ Head(failures[i].error) = "max retries exceeded"
SuccessLogged(h) ==
    [level |-> "info", text |-> "Queued message sent to Discord successfully", id |-> h]
        \in logged

\* C1: a message whose every send is rate limited is sent maxRetries times,
\* the handler's send included, and is then dropped with a failure record
\* "max retries exceeded"; until then it stays with the queue, and no message
\* is sent more than maxRetries times.
C1_AttemptCap ==
    \A h \in Reqs :
        /\ sends[h] <= maxRetries
        /\ (Handed(h) /\ AllRateLimited(h)) =>
               IF Len(outcomes[h]) < maxRetries
               THEN /\ InQueue(h) \/ InReady(h) \/ InPass(h)
                    /\ ~DiscordFailureRecorded(h)
               ELSE /\ Len(outcomes[h]) = maxRetries
                    /\ sends[h] = maxRetries
                    /\ ~InQueue(h) /\ ~InReady(h) /\ ~InPass(h)
                    /\ MaxRetriesRecorded(h)

C1_Witness ==
    \E h \in Reqs :
        /\ Len(outcomes[h]) = maxRetries
        /\ AllRateLimited(h)
        /\ MaxRetriesRecorded(h)

\* C2: once a send of a message has failed without a rate limit, in the
\* handler or in a drain pass, the message is not in the queue nor with a
\* pass, and no further send of it starts.
C2_HardFailureEndsDelivery ==
    \A h \in Reqs :
        \A i \in 1..Len(outcomes[h]) :
            outcomes[h][i] = "err" =>
                /\ i = Len(outcomes[h])
                /\ sends[h] = Len(outcomes[h])
                /\ ~InQueue(h) /\ ~InReady(h) /\ ~InPass(h)

C2_Witness ==
    \E h, g \in Reqs :
        /\ outcomes[h] = <<"rl", "err">>
        /\ outcomes[g] = <<"err">>

\* C3: no goroutine waits inside Add: none stands in the Publish of the line
\* Add logs, with Add's send on notify still to come.
C3_AddNeverWaits ==
    \A p \in Procs :
        ~ /\ Len(todo[p]) >= 2
          /\ todo[p][1].op = "pub"
          /\ todo[p][2].op = "notify"

\* C4, as stated: when the background task has ended, every message that was
\* handed to the queue has been reported as sent or has a failure record.
C4_NoneLostAtStop ==
    lpc = "exited" =>
        \A h \in Reqs : Handed(h) => SuccessLogged(h) \/ DiscordFailureRecorded(h)

\* C4, amended: a message handed to the queue is in the queue, with a drain
\* pass that has not finished with it, reported as sent, or has a failure
\* record of type "discord".
C4_NoSilentDrop ==
    \A h \in Reqs :
        Handed(h) =>
            \/ InQueue(h) \/ InReady(h) \/ InPass(h)
            \/ SuccessLogged(h)
            \/ DiscordFailureRecorded(h)

C4_Witness ==
    \E h \in Reqs :
        /\ Handed(h)
        /\ Len(outcomes[h]) >= 2
        /\ outcomes[h][Len(outcomes[h])] = "err"
        /\ DiscordFailureRecorded(h)
        /\ ~InQueue(h) /\ ~InReady(h) /\ ~InPass(h)

\* C5: once a send of a message has succeeded, that send is its last: the
\* message is not in the queue nor with a pass, and no further send starts.
C5_DeliveredOnce ==
    \A h \in Reqs :
        \A i \in 1..Len(outcomes[h]) :
            outcomes[h][i] = "ok" =>
                /\ i = Len(outcomes[h])
                /\ sends[h] = Len(outcomes[h])
                /\ ~InQueue(h) /\ ~InReady(h) /\ ~InPass(h)

C5_Witness ==
    \E h \in Reqs : outcomes[h] = <<"rl", "rl", "ok">>

\* C6: a handler that has taken a request answers it, with status 200: it is
\* never in a send that does not return, and its answer is 200.
C6_AlwaysAnswers200 ==
    \A h \in Reqs :
        /\ hpc[h] # "stuck"
        /\ hpc[h] = "done" => answered[h] = StatusOK

\* C7: once Stop has been called, processLoop starts no drain pass.
C7_NoPassAfterStop ==
    [][done => ~(lpc # "pm" /\ lpc' = "pm")]_vars

\* A message whose retryAt is unset or before the present.
IsDue(m) == m.retryAt = ZeroTime \/ m.retryAt < now
\* The messages a pass holds: the one being sent and those still to send.
Taken(c, r) == (IF c = NoMsg THEN <<>> ELSE <<c>>) \o r

\* C8: a drain pass takes from the queue exactly the messages whose retryAt
\* is unset or before the time it reads, in their order, and leaves the
\* others in the queue, in their order and with their fields; a send starts
\* only for a message whose retryAt is unset or past.
C8_OnlyDueSent ==
    [][/\ (lpc = "pm" /\ lpc' # "pm" /\ messages # <<>>) =>
              /\ messages' = SelectSeq(messages, LAMBDA m : ~IsDue(m))
              /\ Taken(cur', ready') = SelectSeq(messages, IsDue)
       /\ (lpc' = "send" /\ lpc # "send") => IsDue(cur')
      ]_vars

C8_Witness ==
    /\ lpc = "send"
    /\ cur # NoMsg
    /\ messages # <<>>
    /\ messages[1].retryAt = now
    /\ sends[messages[1].id] = 1

\* What the sender met: the number of chunks and the first response that is
\* not a 204.
NChunks == Len(chunksOf(sendIn.sender, sendIn.message).chunks)
IsSuccess(r) == r.kind = "http" /\ r.status = StatusNoContent
Is429(r) == r.kind = "http" /\ r.status = StatusTooManyRequests
FirstFailure(i) ==
    /\ i \in 1..NChunks
    /\ \A j \in 1..(i - 1) : IsSuccess(sendIn.resps[j])
    /\ ~IsSuccess(sendIn.resps[i])
\* The wait a 429 advises, in milliseconds.
AdvisedWait(hdr) ==
    IF hdr.kind = "num" THEN TruncDiv(hdr.micros, 1000) ELSE defaultRetryAfter

\* C9: when the first response that is not a 204 is a 429, sendToDiscord
\* reports rate limited with the wait the response advises, whatever the
\* Retry-After header holds, and no later chunk is sent.
C9_Every429RateLimited ==
    sendOut.state = "returned" =>
        \A i \in 1..NChunks :
            (FirstFailure(i) /\ Is429(sendIn.resps[i])) =>
                /\ sendOut.rateLimited
                /\ sendOut.retryAfter = AdvisedWait(sendIn.resps[i].hdr)
                /\ sendOut.posts = i

\* C10: when the first response that is not a 204 is no 429 either, the send
\* ends at that chunk with an error and a zero wait, and sendToDiscord does
\* not report rate limited.
C10_OtherFailuresNotRetryable ==
    sendOut.state = "returned" =>
        \A i \in 1..NChunks :
            (FirstFailure(i) /\ ~Is429(sendIn.resps[i])) =>
                /\ sendOut.err # "nil"
                /\ sendOut.inner = 0
                /\ ~sendOut.rateLimited
                /\ sendOut.retryAfter = 0
                /\ sendOut.posts =
                       IF sendIn.resps[i].kind \in {"marshal", "newreq"} THEN i - 1 ELSE i

C10_Witness ==
    /\ sendOut.state = "returned"
    /\ NChunks = 2
    /\ FirstFailure(2)
    /\ sendIn.resps[2] = RespHTTP(500, HdrNum(2500000))
    /\ sendOut.err = "discord API returned status code"

\* The send reported success: no error, no wait, not rate limited.
ReportsSuccess ==
    /\ sendOut.err = "nil"
    /\ sendOut.retryAfter = 0
    /\ sendOut.inner = 0
    /\ ~sendOut.rateLimited
AllNoContent == \A i \in 1..NChunks : IsSuccess(sendIn.resps[i])

\* C11: a send that has returned reports success exactly if every chunk of
\* the message was handed to the HTTP client and every response had status
\* 204; a response 200 makes the send fail.
C11_SuccessIffAll204 ==
    sendOut.state = "returned" =>
        /\ ReportsSuccess <=> (sendOut.posts = NChunks /\ AllNoContent)
        /\ ~ReportsSuccess => sendOut.err # "nil"

C11_Witness ==
    /\ sendOut.state = "returned"
    /\ NChunks = 2
    /\ IsSuccess(sendIn.resps[1])
    /\ sendIn.resps[2] = RespHTTP(200, HdrAbsent)
    /\ sendOut.posts = 2
    /\ sendOut.err = "discord API returned status code"

\* C12: within one send operation a step hands at most one chunk to the HTTP
\* client, that chunk is the one after the chunks already handed over, and
\* it is handed over only if every earlier chunk was answered 204; so the
\* chunks go out in chunk order and none follows the first failure.
C12_InOrderStopAtFailure ==
    [][post'.posted # post.posted =>
           LET n == Len(post.posted) IN
           /\ n < Len(post.chunks)
           /\ post'.posted = Append(post.posted, post.chunks[n + 1])
           /\ post.i = n + 1
           /\ \A j \in 1..n : IsSuccess(sendIn.resps[j])]_vars

C12_Witness ==
    /\ post.state = "returned"
    /\ Len(post.chunks) = 2
    /\ sendIn.resps[1] = RespHTTP(500, HdrNum(2500000))
    /\ post.posted = <<post.chunks[1]>>
    /\ post.err = "discord API returned status code"

\* splitMessage was called and returned its chunks.
SplitReturned == splitOut.state = "called" /\ splitOut.status = "ok"

\* C13: for a positive body limit the split loop ends: it neither crashes nor
\* comes back to a remaining text it has already had.  (A loop the model
\* stopped following, status "running", is not counted against the claim.)
C13_SplitTerminates ==
    (splitOut.state = "called" /\ splitIn.messageSize >= 1) =>
        splitOut.status \in {"ok", "running"}

\* C14, as stated: a message that with its header is no longer than the
\* limit comes back as the one chunk header + message.
C14_FitsGivesOneChunk ==
    (splitOut.state = "called" /\ Len(splitIn.msg) <= splitIn.messageSize) =>
        /\ splitOut.status = "ok"
        /\ splitOut.chunks = <<splitIn.base \o splitIn.msg>>

\* C14, amended: a message that is not empty and with its header is shorter
\* than the limit comes back as the one chunk header + message.
C14_ShorterGivesOneChunk ==
    (splitOut.state = "called" /\ Len(splitIn.msg) >= 1
                               /\ Len(splitIn.msg) < splitIn.messageSize) =>
        /\ splitOut.status = "ok"
        /\ splitOut.chunks = <<splitIn.base \o splitIn.msg>>

C14_Witness ==
    /\ SplitReturned
    /\ splitIn.base = <<"H", ":">>
    /\ Len(splitIn.msg) = 8
    /\ splitIn.messageSize = 9
    /\ splitOut.chunks = <<splitIn.base \o splitIn.msg>>

\* C15: when splitMessage returns for a positive body limit, every chunk is
\* at most as long as the body limit plus the header.
C15_ChunkLengthBound ==
    (SplitReturned /\ splitIn.messageSize >= 1) =>
        \A i \in 1..Len(splitOut.chunks) :
            Len(splitOut.chunks[i]) <= splitIn.messageSize + Len(splitIn.base)

C15_Witness ==
    /\ SplitReturned
    /\ splitIn.base = <<"H", ":">>
    /\ Len(splitOut.chunks) >= 2
    /\ \E i \in 1..Len(splitOut.chunks) :
           Len(splitOut.chunks[i]) = splitIn.messageSize + Len(splitIn.base)

\* Reading a message back from its chunks: the header is cut off, a leading
\* "... " and a trailing " ..." are removed, placeholder chunks "..." are
\* left out, and the bodies are joined with one space.
HasSuffix(s, p) == Len(s) >= Len(p) /\ SubSeq(s, Len(s) - Len(p) + 1, Len(s)) = p
StripHeader(chunk, base) == SubSeq(chunk, Len(base) + 1, Len(chunk))
StripLead(s) == IF HasPrefix(s, DotsSp) THEN SubSeq(s, 5, Len(s)) ELSE s
StripTrail(s) == IF HasSuffix(s, SpDots) THEN SubSeq(s, 1, Len(s) - 4) ELSE s
BodyOf(chunk, base) == StripTrail(StripLead(StripHeader(chunk, base)))
IsPlaceholder(chunk, base) == StripHeader(chunk, base) = Dots
RECURSIVE JoinBodies(_, _, _)
JoinBodies(chunks, base, first) ==
    IF chunks = <<>> THEN <<>>
    ELSE IF IsPlaceholder(Head(chunks), base)
    THEN JoinBodies(Tail(chunks), base, first)
    ELSE (IF first THEN <<>> ELSE <<" ">>) \o BodyOf(Head(chunks), base)
         \o JoinBodies(Tail(chunks), base, FALSE)
Rejoined == JoinBodies(splitOut.chunks, splitIn.base, TRUE)

\* C16: when splitMessage returns, the message read back from the chunks is
\* the message that was split.
C16_ChunksRejoin == SplitReturned => Rejoined = splitIn.msg

C16_Witness ==
    /\ SplitReturned
    /\ Len(splitOut.chunks) >= 3
    /\ \E i \in 1..Len(splitOut.chunks) : IsPlaceholder(splitOut.chunks[i], splitIn.base)
    /\ \E i \in 1..(Len(splitIn.msg) - 1) : splitIn.msg[i] = " " /\ splitIn.msg[i + 1] = " "
    /\ Rejoined = splitIn.msg

\* C17: splitMessage returns no chunk for the empty message, whatever the
\* header and the body limit, and the chunk loop of the sender, given no
\* chunk, hands nothing to the HTTP client and returns (0, nil).
C17_EmptyGivesNoChunks ==
    (splitOut.state = "called" /\ splitIn.msg = <<>>) =>
        /\ splitOut.status = "ok"
        /\ splitOut.chunks = <<>>
        /\ \A r1, r2 \in SResponses :
               sendLoop(splitOut.chunks, <<r1, r2>>, 1, 0) =
                   [state |-> "returned", retryAfter |-> 0, err |-> "nil", posts |-> 0]

C17_Witness ==
    /\ splitOut.state = "called"
    /\ splitIn.msg = <<>>
    /\ splitIn.base = <<"H", ":">>
    /\ splitIn.messageSize = 0
    /\ splitOut.chunks = <<>>

\* The copies of the message of request h that the queue holds: in the
\* pending collection, among the ready messages of a pass, or being sent
\* (the loop variable msg of processMessages keeps the message it sent last
\* until the next iteration; it counts only while its send is going on).
InSeq(s, h) == { s[i] : i \in { j \in 1..Len(s) : s[j].id = h } }
Copies(ms, rs, c, l, h) ==
    InSeq(ms, h) \cup InSeq(rs, h)
        \cup (IF c.id = h /\ l \in {"send", "stuck"} THEN {c} ELSE {})

C19_PendingBelowCap ==
    /\ \A i \in 1..Len(messages) :
           messages[i].attempts >= 1 /\ messages[i].attempts < maxRetries
    /\ \A i \in 1..Len(ready) :
           ready[i].attempts >= 1 /\ ready[i].attempts < maxRetries

C19_Witness ==
    \E i \in 1..Len(messages) :
        /\ messages[i].attempts = maxRetries - 1
        /\ outcomes[messages[i].id] = <<"rl", "rl", "rl", "rl">>

\* Send operations of the message of request h that have started and not
\* returned, and those among them that its handler made.
InFlight(h) == sends[h] - Len(outcomes[h])
HandlerSending(h) == hpc[h] \in {"send", "stuck"}
QueueSending == lpc \in {"send", "stuck"}
QueueInFlight ==
    Cardinality({ h \in Reqs : InFlight(h) = 1 /\ ~HandlerSending(h) })

\* C20: no message has two sends in progress, and at most one send in
\* progress was issued by the queue, the one processLoop stands in.  While
\* the handler's send of a message is in progress the queue does not hold
\* the message, and while the queue sends a message it is neither in the
\* pending collection nor among the messages the pass has still to send.
C20_OneSendInFlight ==
    /\ \A h \in Reqs : InFlight(h) \in {0, 1}
    /\ QueueInFlight = (IF QueueSending THEN 1 ELSE 0)
    /\ QueueSending => /\ InFlight(cur.id) = 1
                       /\ ~HandlerSending(cur.id)
                       /\ ~InQueue(cur.id)
                       /\ ~InReady(cur.id)
    /\ \A h \in Reqs :
           HandlerSending(h) =>
               /\ InFlight(h) = 1
               /\ ~InQueue(h) /\ ~InReady(h)
               /\ ~(QueueSending /\ cur.id = h)
    /\ \A h \in Reqs : CountIn(messages, h) + CountIn(ready, h) <= 1

C20_Witness ==
    \E h, g \in Reqs :
        /\ h # g
        /\ lpc = "send" /\ cur.id = h
        /\ hpc[g] = "send"
        /\ outcomes[h] = <<"rl", "rl">>

\* processLoop is inside processMessages, past the critical section.
InDrainPass == lpc \in {"run", "send", "stuck"}

\* C21: a drain pass sends the messages that were ready at its partition,
\* each once, and no other.  A send the queue starts is the send of the first
\* message of the list the pass has still to send (at the partition: of the
\* ready messages, in queue order), and takes it off the list; nothing else
\* changes the list, so a message put in the queue during the pass is not on
\* it; no message has two sends started in one step; and the pass ends only
\* with the list empty.
C21_ReadySentOncePerPass ==
    [][/\ \A h \in Reqs :
              /\ sends'[h] \in {sends[h], sends[h] + 1}
              /\ (sends'[h] = sends[h] + 1 /\ hpc'[h] = hpc[h]) =>
                     LET list == IF lpc = "pm" THEN SelectSeq(messages, IsDue) ELSE ready IN
                     /\ lpc \in {"pm", "run", "send"}
                     /\ list # <<>>
                     /\ Head(list).id = h
                     /\ cur' = Head(list)
                     /\ ready' = Tail(list)
                     /\ lpc' \in {"send", "stuck"}
       /\ (lpc # "pm" /\ ready' # ready) =>
              /\ InDrainPass
              /\ ready # <<>>
              /\ ready' = Tail(ready)
              /\ sends'[Head(ready).id] = sends[Head(ready).id] + 1
       /\ (lpc = "pm" /\ ready' # ready) => ready' = Tail(SelectSeq(messages, IsDue))
       /\ (lpc \in {"pm", "run", "send", "stuck"} /\ lpc' \in {"parked", "select", "exited"}) =>
              ready' = <<>> /\ (lpc # "pm" => ready = <<>>)]_vars

\* A pass had two ready messages: the first was sent, rate limited and put
\* back in the queue, and the pass now sends the second.
C21_Witness ==
    \E h, g \in Reqs :
        /\ h # g
        /\ lpc = "send" /\ cur.id = g /\ ready = <<>>
        /\ outcomes[g] = <<"rl">>
        /\ outcomes[h] = <<"rl", "rl">>
        /\ \E i \in 1..Len(messages) :
               messages[i].id = h /\ messages[i].retryAt = now + defaultRetryAfter

\* The first send of the message of request h, the handler's, was answered
\* 429; the queue holds the message exactly once.
FirstSend429(h) == outcomes[h][1] \in {"rl", "rl0"}
HeldOnce(h) ==
    CountIn(messages, h) + CountIn(ready, h)
        + (IF QueueSending /\ cur.id = h THEN 1 ELSE 0) = 1
HeldNowhere(h) ==
    CountIn(messages, h) + CountIn(ready, h)
        + (IF QueueSending /\ cur.id = h THEN 1 ELSE 0) = 0

\* C22: once the handler's send of a message has returned, and until a send
\* by the queue has, the queue holds the message, once and with attempts = 1,
\* if the handler's send was answered 429, and does not hold it otherwise.
C22_QueuedIffRateLimited ==
    \A h \in Reqs :
        Len(outcomes[h]) = 1 =>
            /\ FirstSend429(h) => HeldOnce(h)
            /\ ~FirstSend429(h) => HeldNowhere(h)
            /\ \A i \in 1..Len(messages) :
                   messages[i].id = h => messages[i].attempts = 1

\* Goroutines between Lock and Unlock of the queue's mutex.
InCritical ==
    Cardinality({ a \in Reqs : hpc[a] \in {"locked", "appended"} })
        + (IF lpc \in {"locked", "scanned", "replaced"} THEN 1 ELSE 0)

\* C23: at most one goroutine is between Lock and Unlock, and it is the one
\* the mutex records; and whenever the mutex is free, a message whose Add has
\* returned is in the pending collection once and was taken by no pass, or
\* is not in it and was taken as ready by exactly one pass.
C23_AddNeverLostOrDuplicated ==
    /\ InCritical <= 1
    /\ InCritical = 1 <=> mu # NoHolder
    /\ mu = NoHolder =>
           \A a \in Reqs :
               /\ hpc[a] = "added" => CountIn(messages, a) + taken[a] = 1
               /\ hpc[a] = "idle" => CountIn(messages, a) + taken[a] = 0

\* An Add that waited for a pass in its critical section: the message is in
\* the queue, and the pass took the other message.
C23_Witness ==
    \E a, b \in Reqs :
        /\ a # b
        /\ mu = NoHolder
        /\ hpc[a] = "added" /\ hpc[b] = "added"
        /\ taken[b] = 1 /\ taken[a] = 0
        /\ CountIn(messages, a) = 1
        /\ messages[1].retryAt = LongAgo

\* C24, as stated: the wake-ups of the Adds made before a pass starts give
\* one pass; when processLoop has taken a wake-up and is about to run the
\* pass (between two ticks every pass is started by a wake-up), none is left
\* pending to start another.
C24_BurstGivesOnePass == lpc = "pm" => notify = 0

\* Goroutine p ends an Add in this step: it makes the send on notify.
SendsNotify(p) ==
    /\ todo[p] # <<>>
    /\ Head(todo[p]).op = "notify"
    /\ todo'[p] # todo[p]

\* C24, amended: the notify channel never holds more than one wake-up.  An
\* Add made while one is pending leaves that one and does not touch
\* processLoop; an Add made while processLoop waits in its select hands the
\* wake-up to it, so that it calls processMessages, and leaves none pending;
\* any other Add leaves one pending.
C24_AtMostOnePending ==
    [][/\ notify \in {0, 1}
       /\ notify' \in {0, 1}
       /\ \A p \in Reqs :
              SendsNotify(p) =>
                  IF notify = 1 THEN notify' = 1 /\ lpc' = lpc
                  ELSE IF lpc = "parked" THEN notify' = 0 /\ lpc' = "pm"
                  ELSE notify' = 1 /\ lpc' = lpc]_vars

\* Two Adds before the pass: the first woke processLoop, the second left a
\* wake-up pending, which will start a second pass.
C24_Witness ==
    /\ lpc = "pm"
    /\ notify = 1
    /\ Len(messages) = 2
    /\ \A h \in {1, 2} : hpc[h] = "done"

\* The error a send of the queue returned, by the outcome noted for it, and
\* the failure record of the message processMessages holds.
ErrOf(o) ==
    IF o = "err" THEN "discord API returned status code" ELSE "rate limited by Discord"
DiscordFailure(detail) ==
    [id |-> cur.id, sender |-> cur.sender, message |-> cur.message,
     failureType |-> "discord", error |-> detail]
Dropped(h) == CountIn(messages', h) = 0 /\ InSeq(ready', h) = {}

\* C25: when a send made by processMessages fails and the message's attempts
\* reach maxRetries, one failure record of type "discord" with the detail
\* "max retries exceeded: <error>" is written; when it fails with an error
\* that is not a rate limit and attempts are below maxRetries, one record of
\* type "discord" with the bare error text is written; either way the
\* message is in the queue no more.
C25_FailureRecorded ==
    [][\A h \in Reqs :
           (/\ lpc = "send"
            /\ cur.id = h
            /\ Len(outcomes'[h]) = Len(outcomes[h]) + 1
            /\ outcomes'[h][Len(outcomes'[h])] # "ok") =>
               LET o == outcomes'[h][Len(outcomes'[h])]
                   attempts == cur.attempts + 1
               IN
               /\ attempts >= maxRetries =>
                      /\ failures' = Append(failures,
                                            DiscordFailure(<<"max retries exceeded", ErrOf(o)>>))
                      /\ Dropped(h)
               /\ (attempts < maxRetries /\ o # "rl") =>
                      /\ failures' = Append(failures, DiscordFailure(<<ErrOf(o)>>))
                      /\ Dropped(h)]_vars

\* One message was given up after maxRetries rate limits and another after
\* an error on its second send: each has its record and is gone.
C25_Witness ==
    \E h1, h2 \in Reqs :
        /\ outcomes[h1] = <<"rl", "rl", "rl", "rl", "rl">>
        /\ outcomes[h2] = <<"rl", "err">>
        /\ \E i, j \in 1..Len(failures) :
               /\ failures[i].id = h1
               /\ failures[i].error = <<"max retries exceeded", "rate limited by Discord">>
               /\ failures[j].id = h2
               /\ failures[j].error = <<"discord API returned status code">>
        /\ CountIn(messages, h1) = 0
        /\ CountIn(messages, h2) = 0

\* C26: for a message that is not empty and shorter than maxLength,
\* extractChunk returns the message as it is with an empty remainder, and
\* splitMessage returns the one chunk header + message, with no mark added.
C26_ShortMessageUnmodified ==
    (Len(splitIn.msg) >= 1 /\ Len(splitIn.msg) < splitIn.messageSize) =>
        /\ extractChunk(splitIn.msg, splitIn.messageSize)
               = [chunk |-> splitIn.msg, remainder |-> <<>>, panic |-> FALSE]
        /\ splitOut.state = "called" =>
               /\ splitOut.status = "ok"
               /\ Len(splitOut.chunks) = 1
               /\ StripHeader(splitOut.chunks[1], splitIn.base) = splitIn.msg
               /\ HasPrefix(splitOut.chunks[1], splitIn.base)

C26_Witness ==
    /\ SplitReturned
    /\ splitIn.base = <<"H", ":">>
    /\ splitIn.msg = <<"a", " ", "a">>
    /\ splitIn.messageSize = 4
    /\ splitOut.chunks = <<<<"H", ":", "a", " ", "a">>>>

\* The positions (Go indices) at which extractChunk may split msg: a space
\* at end with 0 < end <= maxLength - 4.
SplitPoints(msg, maxLength) ==
    { end \in 1..(maxLength - 4) : end + 1 <= Len(msg) /\ msg[end + 1] = " " }
MaxOf(S) == CHOOSE x \in S : \A y \in S : y <= x

\* C27: for a message longer than maxLength with a space at some position
\* end, 0 < end <= maxLength - 4, extractChunk splits at the last such space:
\* the chunk is message[0:end] + " ...", the remainder is "... " +
\* message[end+1:]; the two parts and the space between them make up the
\* message again.
C27_SplitsAtLastSpace ==
    LET msg == splitIn.msg
        maxLength == splitIn.messageSize
        e == extractChunk(msg, maxLength)
    IN
    (Len(msg) > maxLength /\ SplitPoints(msg, maxLength) # {}) =>
        LET end == MaxOf(SplitPoints(msg, maxLength)) IN
        /\ ~e.panic
        /\ e.chunk = SubSeq(msg, 1, end) \o SpDots
        /\ e.remainder = DotsSp \o SubSeq(msg, end + 2, Len(msg))
        /\ StripTrail(e.chunk) \o <<" ">> \o StripLead(e.remainder) = msg
        /\ (splitOut.state = "called" /\ splitOut.chunks # <<>>) =>
               splitOut.chunks[1] = splitIn.base \o e.chunk

\* A text with two spaces within reach is split at the later one.
C27_Witness ==
    /\ splitOut.state = "called"
    /\ splitIn.base = <<>>
    /\ splitIn.msg = <<"a", " ", "a", " ", "a", "a", "a", "a", "a", "a", "a">>
    /\ splitIn.messageSize = 8
    /\ splitOut.chunks[1] = <<"a", " ", "a", " ", ".", ".", ".">>

\* extractChunk answers msg with the placeholder and the whole text.
GivesPlaceholder(msg, maxLength) ==
    extractChunk(msg, maxLength)
        = [chunk |-> Dots, remainder |-> DotsSp \o msg, panic |-> FALSE]

\* C28, as stated: extractChunk returns the chunk "..." with the remainder
\* "... " + message exactly when the message is as long as maxLength, or is
\* longer and has no space at the positions 1..maxLength-4.
C28_PlaceholderExactly ==
    LET msg == splitIn.msg
        maxLength == splitIn.messageSize
    IN
    GivesPlaceholder(msg, maxLength) <=>
        \/ Len(msg) = maxLength
        \/ Len(msg) > maxLength /\ SplitPoints(msg, maxLength) = {}

\* splitMessage returned n >= 2 chunks and every split was made at a space:
\* no chunk is the placeholder.
SplitAtWords ==
    /\ SplitReturned
    /\ Len(splitOut.chunks) >= 2
    /\ \A i \in 1..Len(splitOut.chunks) : ~IsPlaceholder(splitOut.chunks[i], splitIn.base)

\* C29: every chunk splitMessage returns begins with the header; when the
\* message was split at spaces into two chunks or more, every chunk but the
\* last ends with " ..." and every chunk but the first begins with the
\* header followed by "... ".
C29_ChunksCarryHeaderAndMarks ==
    LET chunks == splitOut.chunks
        n == Len(chunks)
    IN
    /\ SplitReturned => \A i \in 1..n : HasPrefix(chunks[i], splitIn.base)
    /\ SplitAtWords =>
           /\ \A i \in 1..(n - 1) : HasSuffix(chunks[i], SpDots)
           /\ \A i \in 2..n : HasPrefix(chunks[i], splitIn.base \o DotsSp)

\* A text split at spaces into three chunks.
C29_Witness ==
    /\ SplitAtWords
    /\ splitIn.base = <<"H", ":">>
    /\ Len(splitOut.chunks) = 3
    /\ HasSuffix(splitOut.chunks[2], SpDots)
    /\ HasPrefix(splitOut.chunks[2], <<"H", ":">> \o DotsSp)

\* The text is made of spaces and nothing else.
AllSpaces(msg) == \A i \in 1..Len(msg) : msg[i] = " "

\* C30, as stated: for a message made of spaces only, of any length,
\* splitMessage returns no chunk or one chunk, and its loop ends.
C30_SpacesGiveAtMostOneChunk ==
    (splitOut.state = "called" /\ AllSpaces(splitIn.msg)) =>
        /\ splitOut.status = "ok"
        /\ Len(splitOut.chunks) <= 1

\* The request handler h was given lacks its sender or its message.
LacksParam(h) == hpc[h] # "idle" /\ (req[h].sender = <<>> \/ req[h].message = <<>>)

\* C31: a request without a sender or without a message reaches no sink: no
\* send to Discord is started for it, nothing of it is in the queue or in
\* the hands of processMessages, no file write is made (a write that failed
\* would have left a failure record and its error), no line other than a
\* debug line is logged; the handler has answered it with 200.
C31_NoParamNoSink ==
    \A h \in Reqs :
        LacksParam(h) =>
            /\ sends[h] = 0
            /\ outcomes[h] = <<>>
            /\ Copies(messages, ready, cur, lpc, h) = {}
            /\ CountIn(messages, h) = 0
            /\ \A i \in 1..Len(failures) : failures[i].id # h
            /\ herr[h] = NoErr
            /\ \A l \in logged : l.id # h
            /\ hpc[h] = "done"
            /\ answered[h] = StatusOK

\* A request with a message and no sender, Discord enabled, was answered
\* and nothing was sent.
C31_Witness ==
    /\ hpc[2] = "done"
    /\ req[2].sender = <<>>
    /\ req[2].message = TextShort
    /\ req[2].discord
    /\ answered[2] = StatusOK
    /\ sends[2] = 0

\* C32: every send of a message starts at its first chunk, whatever the
\* sends before it reached, and chunks the whole message again; within one
\* send the chunks are POSTed one after the other, each once.  So when the
\* attempts before were rate limited at a later chunk, the first chunk,
\* accepted in each of them, is POSTed and accepted again.
C32_RetryStartsOver ==
    [][\A h \in Reqs :
           /\ (sends'[h] = sends[h] + 1 /\ hpc'[h] \in {"send", "stuck"}) => idx'[h] = 1
           /\ (sends'[h] = sends[h] + 1 /\ hpc'[h] \notin {"send", "stuck"}) =>
                  /\ cur'.id = h
                  /\ idx'[Loop] = 1
                  /\ cur'.attempts >= 1
                  /\ chunksOf(cur'.sender, cur'.message)
                         = chunksOf(req[h].sender, req[h].message)
           /\ (sends' = sends /\ lpc = "send" /\ lpc' = "send" /\ cur.id = h) =>
                  idx'[Loop] \in {idx[Loop], idx[Loop] + 1}]_vars

\* Two sends of the message were rate limited after their first chunk was
\* accepted; the third send has had its first chunk accepted as well.
C32_Witness ==
    /\ lpc = "send"
    /\ cur.id = 1
    /\ idx[Loop] = 2
    /\ sends[1] = 3
    /\ outcomes[1] = <<"rl", "rl">>

\* The message of request h is in the queue; it has left it for good,
\* delivered by the queue or recorded as failed.
Queued(h) == CountIn(messages, h) >= 1
Left(h) ==
    /\ Copies(messages, ready, cur, lpc, h) = {}
    /\ Len(outcomes[h]) >= 2
    /\ \/ outcomes[h][Len(outcomes[h])] = "ok"
       \/ \E i \in 1..Len(failures) :
              failures[i].id = h /\ failures[i].failureType = "discord"

\* C33: when Stop is never called, the ticks keep coming, processLoop is
\* scheduled and every send returns, a message that is in the queue
\* eventually is out of it, delivered or recorded as failed.
C33_EveryMessageLeaves == \A h \in Reqs : Queued(h) ~> Left(h)

\* A message that was rate limited three times, the last two in the queue,
\* and then delivered.
C33_Witness ==
    /\ Left(1)
    /\ outcomes[1] = <<"rl", "rl", "rl", "ok">>

\* C34: the pending collection never holds the message of a request twice;
\* nor is a message pending while a drain pass holds it, to be sent or being
\* sent: the pass takes it out before the send and puts it back at most once.
C34_AtMostOncePending ==
    \A h \in Reqs :
        /\ CountIn(messages, h) <= 1
        /\ CountIn(messages, h) + CountIn(ready, h)
               + (IF QueueSending /\ cur.id = h THEN 1 ELSE 0) <= 1
        /\ CountIn(messages, h) = 1 => Len(outcomes[h]) >= 1 /\ sends[h] = Len(outcomes[h])

\* The messages of two requests are pending, one of them put back by a
\* drain pass.
C34_Witness ==
    /\ Len(messages) = 2
    /\ messages[1].id # messages[2].id
    /\ outcomes[messages[2].id] = <<"rl", "rl">>
    /\ messages[2].attempts = 2

\* processMessages runs in this step and finds no message due.
EmptyPass == lpc = "pm" /\ lpc' # "pm" /\ SelectSeq(messages, IsDue) = <<>>

\* C35: a drain pass that finds no ready message starts no send, leaves the
\* pending collection as it is, raises no wake-up and writes no log line or
\* failure record; processLoop is back at its select, where it waits unless
\* Stop, a wake-up or a tick is there.  And processLoop takes one wake-up
\* or one tick for each pass, so the wake-up of a re-enqueue starts one pass
\* and no more.
C35_EmptyPassIsIdle ==
    [][/\ EmptyPass =>
              /\ sends' = sends
              /\ outcomes' = outcomes
              /\ messages' = messages
              /\ notify' = notify
              /\ logged' = logged
              /\ failures' = failures
              /\ todo'[Loop] = <<>>
              /\ lpc' = Arrive(done, notify, tick)
       /\ (lpc = "select" /\ lpc' = "pm") =>
              \/ notify = 1 /\ notify' = 0 /\ tick' = tick
              \/ tick = 1 /\ tick' = 0 /\ notify' = notify]_vars

\* A pass re-enqueued a rate-limited message and raised a wake-up; the
\* wake-up has been used up by a pass that sent nothing, no time has passed
\* since, and processLoop waits.
C35_Witness ==
    /\ lpc = "parked"
    /\ notify = 0
    /\ todo[Loop] = <<>>
    /\ Len(messages) = 1
    /\ messages[1].attempts = 2
    /\ messages[1].retryAt = now + defaultRetryAfter
    /\ sends[messages[1].id] = 2

\* The requests whose messages the slice holds, in its order, with their
\* attempts (the passing of time moves retryAt and is no change of the
\* collection).
IdsOf(s) == [i \in 1..Len(s) |-> <<s[i].id, s[i].attempts>>]
FailuresOf(fs, h) == SelectSeq(fs, LAMBDA f : f.id = h /\ f.failureType = "discord")

C37_SecondStopPanics ==
    /\ stopOut.calls = 0 => ~done /\ ~stopOut.panicked
    /\ stopOut.calls = 1 => done /\ ~stopOut.panicked
    /\ stopOut.calls >= 2 => done /\ stopOut.panicked /\ stopOut.calls = 2

\* Stop was called twice while a request was being served; the second call
\* panicked.
C37_Witness ==
    /\ stopOut = [calls |-> 2, panicked |-> TRUE]
    /\ done
    /\ hpc[1] = "send"

\* C38: every remainder extractChunk returns that is not empty begins with
\* "... "; so no iteration of splitMessage puts "..." before a remainder, and
\* the text of every iteration after the first begins with the marker.
C38_RemainderCarriesMarker ==
    LET tr == splitTrace(splitIn.msg, splitIn.messageSize, MaxSplitIter) IN
    \A i \in 1..Len(tr) :
        /\ tr[i].remainder # <<>> => HasPrefix(tr[i].remainder, DotsSp)
        /\ ~tr[i].prepended
        /\ i >= 2 => HasPrefix(tr[i].text, DotsSp)

\* A call that took three iterations, two of them with a remainder.
C38_Witness ==
    LET tr == splitTrace(splitIn.msg, splitIn.messageSize, MaxSplitIter) IN
    /\ SplitReturned
    /\ Len(splitOut.chunks) = 3
    /\ Len(tr) = 3
    /\ tr[1].remainder # <<>>
    /\ tr[2].remainder # <<>>
    /\ tr[3].remainder = <<>>
    /\ ~IsPlaceholder(splitOut.chunks[1], splitIn.base)

\* The numbers from..to in order.
Run(from, to) == [i \in 1..(to - from + 1) |-> from + i - 1]
Max(a, b) == IF a >= b THEN a ELSE b

\* C39: the history holds at most maxHistory lines and the failure list at
\* most maxFailures entries; each holds the latest that were stored, in
\* their order, so the oldest went first.  While debug mode is off a call of
\* Log with a debug line changes nothing: the line is neither stored nor
\* published; with debug mode on it is stored like any other line.
C39_LoggerBuffersBounded ==
    /\ Len(logOut.history) <= maxHistory
    /\ Len(failures) <= maxFailures
    /\ logOut.history = Run(Max(1, logOut.published - maxHistory + 1), logOut.published)
    /\ [i \in 1..Len(failures) |-> failures[i].id]
           = Run(Max(1, logOut.failurePublished - maxFailures + 1), logOut.failurePublished)
    /\ logLine(logOut, "debug", FALSE) = logOut
    /\ \A level \in {"info", "warning", "error"} :
           logLine(logOut, level, debugMode).published = logOut.published + 1
    /\ logLine(logOut, "debug", TRUE).published = logOut.published + 1

\* Two lines and one failure entry more than the buffers hold have been
\* stored, with debug mode off.
C39_Witness ==
    /\ ~debugMode
    /\ logOut.published = maxHistory + 2
    /\ Len(logOut.history) = maxHistory
    /\ logOut.history[1] = 3
    /\ logOut.failurePublished = maxFailures + 1
    /\ Len(failures) = maxFailures
    /\ failures[1].id = 2

====
